---- MODULE Spec2Model ----
(***************************************************************************)
(* Drive-to-SISU document automation: the folder-to-transaction           *)
(* resolution and upload engine (pages/api/run-upload.js and the          *)
(* single-client / single-transaction handlers).                          *)
(*                                                                         *)
(* Strings are modelled at token level:                                    *)
(*  - a folderPath is the sequence of the segments that                    *)
(*    folderPath.split(' > ') yields, so its depth is its length and       *)
(*    startsWith(p + ' > ') is "p is a proper prefix";                     *)
(*  - a file name is a sequence of tokens, the last of which may be an     *)
(*    extension token (".pdf", ".PDF") preceded by the "_UPLOADED" token.  *)
(***************************************************************************)
EXTENDS Integers, Sequences, FiniteSets, TLC

VARIABLES
    \* --- deduplicateFoldersByPriority exercised alone
    allFolders,        \* its argument
    selectedFolders,   \* its result
    dpc,               \* "input" before the call, "done" after it, "off" otherwise
    \* --- Document Store (Google Drive)
    marker,            \* folder id -> content of its SISU_ID doc, or NoMarker
    name,              \* file id -> current file name (token sequence)
    \* --- Transaction Registry (SISU)
    submitted,         \* <<file, client_id>> -> number of acknowledged submissions
    \* --- handler invocation
    mode,              \* which handler runs: "batch", "email", "id", or "none"
    pc,                \* position in the handler
    run,               \* number of completed invocations
    request,           \* the request body's email / transactionId (single modes)
    clientFolders,     \* the folder records the run works on
    matchedFolder,     \* single modes: the folder whose marker matched, or None
    emailToFoldersMap, \* sequence of [email, folders] in Map insertion order
    fi, ei, gi, ti, pi,\* loop indices: folder (step 4), email, folder, transaction, pdf
    attempt,           \* loop variable of the running retry loop
    transactions,      \* sisuLookupResult.transactions of the current email
    pdfs,              \* result of the last findNewPDFs (records [id, name])
    successfulUploads, failures, skipped, multiTransactionFlags,
    response,          \* HTTP status sent by the last finished invocation
    \* --- environment faults
    faults,            \* number of store/registry calls that misbehaved so far
    inFault,           \* the running retry call has already been counted in faults
    \* --- observation (history) variables
    waits,             \* backoff waits (seconds) of the running retry call
    answers,           \* what the registry answered to each attempt of that call
    lookups,           \* email -> what its lookup did in this run
    ackedRun,          \* <<file, client_id>> pairs acknowledged in this run
    attempted,         \* <<file, client_id>> -> submission attempts in this run
    enumerated,        \* <<folder, client_id>> iterations that called findNewPDFs
    nameAtStart,       \* file names when this run began
    prevSuccess,       \* files recorded in successfulUploads by the previous run
    last,              \* what the last finished (file, transaction) pair did
    pairLog,           \* what every finished pair of this run did
    \* --- deployment
    sisuConfigured,    \* SISU_BASE_URL and SISU_AUTH_HEADER are set
    \* --- response body and Audit Log (the SISU_Upload_Errors sheet)
    body,              \* JSON body sent by the last finished batch invocation
    sheetLog,          \* the sheet writes this invocation attempted, in order
    readLog,           \* marker reads of this invocation: [folder, ok]
    escaped,           \* what escaped to the handler's outer catch, or None
    \* --- the SISU_Upload_Errors spreadsheet, written by the log functions alone
    book,              \* [exists, tabs, header, rows] of the spreadsheet
    sheetCalls,        \* number of log function calls made so far
    sheetFaults,       \* number of Sheets API calls that misbehaved so far
    lastAppend,        \* what the last log function call did
    \* --- the two renames applied to one file name alone
    origName,          \* the name the file had before renameFileAsUploaded
    curName,           \* its current name
    npc,               \* "new", "marked", "undone"; "off" otherwise
    \* --- buildFolderPath walking an arbitrary parent structure alone
    parentOf,          \* folder -> its first parent, or NoParent
    walkFrom,          \* the folder the walk starts from
    failAt,            \* which drive.files.get of the walk throws (0: none)
    walked,            \* what the walk returned: [path, reads, caught]
    wpc,               \* "input", "done"; "off" otherwise
    \* --- findClientFolders alone, with folder lookups that may fail
    failedGets,        \* folders whose drive.files.get throws
    foundFolders,      \* what findClientFolders returned
    fpc,               \* "input", "done"; "off" otherwise
    \* --- the lookup cache (utils/client-cache.js)
    cache,             \* this.cache: normalized email -> folder id, or None
    rpc,               \* refresh: "idle", "reading"; "off" otherwise
    ri,                \* index of the folder _doRefresh reads next
    rfolders,          \* the folders _getAllClientFolders returned
    preCache,          \* the map as it was when the running refresh began
    gets,              \* the gets answered since the last refresh began
    refreshes,         \* number of refreshes begun
    \* --- ClientCache.refresh called by concurrent requests
    isRefreshing,      \* this.isRefreshing
    refreshPromise,    \* this.refreshPromise: the _doRefresh it belongs to, or NoPromise
    lastRefreshTime,   \* this.lastRefreshTime: the _doRefresh that set it, or NoPromise
    flights,           \* one [state, before] per _doRefresh started, in order
    calls,             \* request -> [pc, promise, owner, outcome] of its refresh() call
    \* --- the undo handler (remove-suffix.js, by transaction id)
    undone,            \* what the last undo invocation did, or NoUndo
    \* --- invocations of the batch handler that overlap in time
    jobs,              \* invocation -> [pc, work, wi, pdfs, pi, acked, overlapped]
    \* --- the cron upload endpoint (pages/api/cron/upload.js)
    cronSecret,        \* process.env.CRON_SECRET of the deployment
    cron               \* the last cron request: [pc, userAgent, authorization, status]

dvars == <<allFolders, selectedFolders, dpc>>
storeVars == <<marker, name>>
loopVars == <<fi, ei, gi, ti, pi, attempt>>
resultVars == <<successfulUploads, failures, skipped, multiTransactionFlags>>
histVars == <<waits, answers, lookups, ackedRun, attempted, enumerated, nameAtStart, prevSuccess, last,
             pairLog>>
runVars == <<submitted, mode, pc, run, request, clientFolders, matchedFolder,
             emailToFoldersMap, loopVars,
             transactions, pdfs, resultVars, response, faults, inFault, histVars>>
sheetVars == <<book, sheetCalls, sheetFaults, lastAppend>>
nameVars == <<origName, curName, npc>>
pathVars == <<parentOf, walkFrom, failAt, walked, wpc>>
findVars == <<failedGets, foundFolders, fpc>>
cacheVars == <<cache, rpc, ri, rfolders, preCache, gets, refreshes>>
unitVars == <<sheetVars, nameVars, pathVars, findVars, cacheVars>>
flightVars == <<isRefreshing, refreshPromise, lastRefreshTime, flights, calls>>
\* the variables of the components exercised alone that no handler and no
\* other component touches
undoVars == <<undone>>
overlapVars == <<jobs>>
cronVars == <<cronSecret, cron>>
lateVars == <<flightVars, undoVars, overlapVars, cronVars>>
\* ... but the component named
lateButFlight == <<undoVars, overlapVars, cronVars>>
lateButUndo == <<flightVars, overlapVars, cronVars>>
lateButOverlap == <<flightVars, undoVars, cronVars>>
lateButCron == <<flightVars, undoVars, overlapVars>>
envVars == <<sisuConfigured, unitVars, lateVars>>
auditVars == <<body, sheetLog, readLog, escaped>>
\* the handlers' variables, which a component exercised alone leaves alone
coreVars == <<dvars, storeVars, runVars, sisuConfigured, auditVars, lateVars>>
\* the handlers' variables alone
handlerVars == <<dvars, storeVars, runVars, sisuConfigured, auditVars>>
vars == <<dvars, storeVars, runVars, envVars, auditVars>>

----------------------------------------------------------------------------
(* Bounds of the deduplication inputs *)
MaxDepth == 3
MaxFolders == 3

Segs == {"A", "B"}

RECURSIVE SeqsUpTo(_, _)
SeqsUpTo(S, n) ==
    IF n = 0 THEN {<<>>}
    ELSE LET shorter == SeqsUpTo(S, n - 1)
         IN  shorter \cup {Append(s, x) : s \in {t \in shorter : Len(t) = n - 1}, x \in S}

\* buildFolderPath's catch returns the one-segment path 'Unknown Path'
UnknownPath == <<"Unknown Path">>

Paths == (SeqsUpTo(Segs, MaxDepth) \ {<<>>}) \cup {UnknownPath}

----------------------------------------------------------------------------
(* deduplicateFoldersByPriority *)

\* folder.folderPath.split(' > ').length
Depth(folderPath) == Len(folderPath)

\* folderPath.startsWith(processedPath + ' > ')
StartsWithSep(folderPath, processedPath) ==
    /\ Len(folderPath) > Len(processedPath)
    /\ SubSeq(folderPath, 1, Len(processedPath)) = processedPath

\* Mutant: rec goes before the elements of its own depth
InsertByDepthBeforeTies(sorted, rec) ==
    LET k == Cardinality({i \in 1..Len(sorted) : Depth(sorted[i].folderPath) < Depth(rec.folderPath)})
    IN  SubSeq(sorted, 1, k) \o <<rec>> \o SubSeq(sorted, k + 1, Len(sorted))

\* one step of the stable sort: rec goes after every element that does not
\* compare greater than it
InsertByDepth(sorted, rec) ==
    LET k == Cardinality({i \in 1..Len(sorted) : Depth(sorted[i].folderPath) <= Depth(rec.folderPath)})
    IN  SubSeq(sorted, 1, k) \o <<rec>> \o SubSeq(sorted, k + 1, Len(sorted))

RECURSIVE SortFrom(_, _, _)
SortFrom(folders, i, sorted) ==
    IF i > Len(folders) THEN sorted
    ELSE SortFrom(folders, i + 1, InsertByDepth(sorted, folders[i]))

\* Mutant: the sort is left out, folders are visited in discovery order
SortByDepthUnsorted(folders) == folders

\* pathDepths.sort((a, b) => a.depth - b.depth)   (Array.prototype.sort is stable)
SortByDepth(folders) == SortFrom(folders, 1, <<>>)

RECURSIVE DedupLoop(_, _, _, _)
DedupLoop(pathDepths, i, selected, processedPaths) ==
    IF i > Len(pathDepths) THEN selected
    ELSE LET folder == pathDepths[i]
             isDescendant == \E p \in processedPaths : StartsWithSep(folder.folderPath, p)
         IN  IF isDescendant
             THEN DedupLoop(pathDepths, i + 1, selected, processedPaths)
             ELSE DedupLoop(pathDepths, i + 1, Append(selected, folder),
                            processedPaths \cup {folder.folderPath})

\* Mutant: every discovered folder is kept
deduplicateNothing(folders) == folders

deduplicateFoldersByPriority(folders) ==
    DedupLoop(SortByDepth(folders), 1, <<>>, {})

----------------------------------------------------------------------------
(* Bounds of the run model *)
MaxRuns == 2          \* handler invocations in one behaviour
MaxFaultyCalls == 1   \* store / registry calls that misbehave in one behaviour

(* Program constants *)
\* Mutant: two attempts only
maxRetriesShort == 1 + 1

maxRetriesFour == 3 + 1

maxRetries == 3       \* findSISUClientWithRetry / uploadToSISUWithRetry default
maxDepth == 10        \* buildFolderPath

----------------------------------------------------------------------------
(* The Document Store: a shared drive with three marker-capable folders,   *)
(* F2 nested in F1, and one PDF in each.                                   *)

NoMarker == "NoMarker"
None == "none"

Folders == {"F1", "F2", "F3"}
FolderList == <<"F1", "F2", "F3">>       \* order in which the store lists them
Files == {"f1", "f2", "f3"}

Parent(id) == CASE id = "F1" -> "root" [] id = "F2" -> "F1" [] id = "F3" -> "root" [] OTHER -> None
FolderName(id) == CASE id = "F1" -> "A" [] id = "F2" -> "B" [] id = "F3" -> "C" [] OTHER -> "Drive"
SubfoldersOf(id) == CASE id = "F1" -> <<"F2">> [] id = "root" -> <<"F1", "F3">> [] OTHER -> <<>>
FilesIn(id) == CASE id = "F1" -> <<"f1">> [] id = "F2" -> <<"f2">> [] id = "F3" -> <<"f3">> [] OTHER -> <<>>
InitialName(f) == <<f, ".pdf">>

\* marker contents a folder may hold: none, blank, an email, an email followed
\* by white space, an email unknown to the registry, an email whose
\* transactions are all inactive
Contents == {NoMarker, <<" ">>, <<"e1">>, <<"e2", " ">>, <<"e3">>, <<"e4">>}

\* marker contents where the single-transaction handler is in use too: an
\* email or a transaction id
ModeContents == {NoMarker, <<"e1">>, <<"e2", " ">>, <<"t3">>}

\* request bodies of the single-client and single-transaction handlers
EmailRequests == {<<"e1">>, <<"e2">>, <<"e3">>}
IdRequests == {<<"t3">>, <<"t9">>}

\* String.prototype.toLowerCase, token by token
ToLower(s) == [i \in DOMAIN s |-> IF s[i] = "E1" THEN "e1" ELSE IF s[i] = "E2" THEN "e2" ELSE s[i]]

\* parseInt(targetId, 10): the leading numeral, NaN without one
ParseInt(s) == IF s # <<>> /\ Head(s) \in {"t1", "t2", "t3", "t4", "t9"} THEN Head(s) ELSE "NaN"

RECURSIVE TrimLeft(_)
TrimLeft(s) == IF s # <<>> /\ Head(s) = " " THEN TrimLeft(Tail(s)) ELSE s
RECURSIVE TrimRight(_)
TrimRight(s) == IF s # <<>> /\ s[Len(s)] = " " THEN TrimRight(SubSeq(s, 1, Len(s) - 1)) ELSE s
\* String.prototype.trim
Trim(s) == TrimRight(TrimLeft(s))

\* buildFolderPath: walk the parents, at most maxDepth levels
RECURSIVE BuildPathFrom(_, _, _)
BuildPathFrom(currentId, depth, pathSegments) ==
    IF currentId = None \/ depth >= maxDepth THEN pathSegments
    ELSE LET segs == <<FolderName(currentId)>> \o pathSegments
         IN  IF Parent(currentId) # None
             THEN BuildPathFrom(Parent(currentId), depth + 1, segs)
             ELSE segs

buildFolderPath(folderId) == BuildPathFrom(folderId, 0, <<>>)

\* findClientFolders: one record per SISU_ID doc, in listing order
findClientFolders(markers) ==
    LET withMarker == SelectSeq(FolderList, LAMBDA id : markers[id] # NoMarker)
    IN  [i \in DOMAIN withMarker |->
            [folderId |-> withMarker[i], folderPath |-> buildFolderPath(withMarker[i])]]

\* file.name.endsWith('_UPLOADED.pdf')
EndsWithUploadedPdf(fileName) ==
    /\ Len(fileName) >= 2
    /\ fileName[Len(fileName)] = ".pdf"
    /\ fileName[Len(fileName) - 1] = "_UPLOADED"

\* Mutant: the filter of findNewPDFs keeps every PDF
IsNewPdfAlways(fileName) == TRUE

\* the filter of findNewPDFs
IsNewPdf(fileName) == ~EndsWithUploadedPdf(fileName)

RECURSIVE SearchFolder(_, _)
RECURSIVE SearchSubfolders(_, _, _)
SearchFolder(currentFolderId, names) ==
    LET files == FilesIn(currentFolderId)
        recs == [i \in DOMAIN files |-> [id |-> files[i], name |-> names[files[i]]]]
        newPdfs == SelectSeq(recs, LAMBDA file : IsNewPdf(file.name))
    IN  newPdfs \o SearchSubfolders(SubfoldersOf(currentFolderId), 1, names)
SearchSubfolders(subfolders, i, names) ==
    IF i > Len(subfolders) THEN <<>>
    ELSE SearchFolder(subfolders[i], names) \o SearchSubfolders(subfolders, i + 1, names)

\* findNewPDFs(drive, folderId) against the store's current file names
findNewPDFs(folderId, names) == SearchFolder(folderId, names)

\* currentName.replace(/\.pdf$/i, '')
StripPdfExt(currentName) ==
    IF currentName # <<>> /\ currentName[Len(currentName)] \in {".pdf", ".PDF"}
    THEN SubSeq(currentName, 1, Len(currentName) - 1)
    ELSE currentName

\* renameFileAsUploaded: the new name
UploadedName(currentName) == StripPdfExt(currentName) \o <<"_UPLOADED", ".pdf">>

----------------------------------------------------------------------------
(* The Transaction Registry *)

Txns == {"t1", "t2", "t3", "t4", "t5", "t6"}

\* what POST /client/find-client answers for an email: status and clients
RegistryAnswer(email) ==
    CASE email = <<"e1">> ->
            [status |-> 200,
             clients |-> <<[client_id |-> "t1", status_code |-> "UCON", status |-> "", type_id |-> "b"],
                           [client_id |-> "t2", status_code |-> "ACTI", status |-> "", type_id |-> "s"]>>]
      [] email = <<"e2">> ->
            [status |-> 200,
             clients |-> <<[client_id |-> "t3", status_code |-> "PEND", status |-> "", type_id |-> "b"],
                           [client_id |-> "t4", status_code |-> "CLOSD", status |-> "", type_id |-> "s"]>>]
      [] email = <<"e4">> ->
            [status |-> 200,
             clients |-> <<[client_id |-> "t5", status_code |-> "", status |-> "LOST", type_id |-> "b"],
                           [client_id |-> "t6", status_code |-> "ACTI", status |-> "A", type_id |-> "s"]>>]
      [] OTHER -> [status |-> 404, clients |-> <<>>]

\* what POST /client/find-client answers for a client_id
RegistryKnowsId(clientId) == clientId \in Txns

\* Mutant: only closed transactions are excluded
inactiveStatusesClosedOnly == {"CLOSD"}

inactiveStatuses == {"CLOSD", "LOST", "WITHD", "CANC", "EXPIR", "DEAD"}

\* the body of one attempt of findSISUClientWithRetry (run-upload.js) that
\* received an answer
LookupResult(answer) ==
    IF answer.status = 404
    THEN [found |-> FALSE, error |-> "Email not found in SISU", transactions |-> <<>>]
    ELSE IF Len(answer.clients) = 0
    THEN [found |-> FALSE, error |-> "No clients found for email", transactions |-> <<>>]
    ELSE LET statusCode(c) == IF c.status_code # "" THEN c.status_code ELSE c.status
             activeClients == SelectSeq(answer.clients,
                                  LAMBDA c : statusCode(c) \notin inactiveStatuses /\ c.status # "A")
         IN  IF Len(activeClients) = 0
             THEN [found |-> FALSE, error |-> "No active transactions found for email",
                   transactions |-> <<>>]
             ELSE [found |-> TRUE, error |-> "",
                   transactions |-> [i \in DOMAIN activeClients |->
                       [client_id |-> activeClients[i].client_id,
                        role |-> IF activeClients[i].type_id = "b" THEN "buyer"
                                 ELSE IF activeClients[i].type_id = "s" THEN "seller"
                                 ELSE "unknown"]]]

----------------------------------------------------------------------------
(* Handler state shared by the run modes *)

Pairs == Files \X Txns
NoLast == [file |-> None, txn |-> None, folder |-> None, download |-> None,
           answers |-> <<>>, waits |-> <<>>, rename |-> None, outcome |-> None]

\* a store or registry call may misbehave while the fault budget lasts
CanFail == inFault \/ faults < MaxFaultyCalls
Charge == /\ faults' = IF inFault THEN faults ELSE faults + 1
          /\ inFault' = TRUE
NoCharge == UNCHANGED <<faults, inFault>>
EndCall == inFault' = FALSE /\ UNCHANGED faults

NoBody == [status |-> 0]

\* the spreadsheet does not exist and no log function has been called
NoBook == [exists |-> FALSE, tabs |-> {}, header |-> {}, rows |-> <<>>]
SheetsOff ==
    /\ book = NoBook /\ sheetCalls = 0 /\ sheetFaults = 0
    /\ lastAppend = [dest |-> None]

\* the components exercised alone are at rest
NamesOff == origName = <<>> /\ curName = <<>> /\ npc = "off"

PathsOff ==
    /\ parentOf = <<>> /\ walkFrom = 0 /\ failAt = 0 /\ walked = <<>> /\ wpc = "off"

FindOff == failedGets = {} /\ foundFolders = <<>> /\ fpc = "off"

CacheOff ==
    /\ cache = <<>> /\ rpc = "off" /\ ri = 1 /\ rfolders = <<>> /\ preCache = <<>>
    /\ gets = {} /\ refreshes = 0

\* the result of new ClientCache() with no refresh() called
NoPromise == 0
FlightOff ==
    /\ isRefreshing = FALSE /\ refreshPromise = NoPromise /\ lastRefreshTime = NoPromise
    /\ flights = <<>> /\ calls = <<>>

NoUndo == [status |-> 0]
UndoOff == undone = NoUndo

OverlapOff == jobs = <<>>

\* a header or an environment variable that is not set
Unset == [set |-> FALSE, value |-> <<>>]

\* a header or an environment variable holding the string s
Str(s) == [set |-> TRUE, value |-> s]

CronIdle == [pc |-> "idle", userAgent |-> Unset, authorization |-> Unset, status |-> 0]

CronOff == cronSecret = Unset /\ cron = CronIdle

LateOff == FlightOff /\ UndoOff /\ OverlapOff /\ CronOff

UnitsOff == SheetsOff /\ NamesOff /\ PathsOff /\ FindOff /\ CacheOff /\ LateOff

RunIdle ==
    /\ mode = None /\ pc = "idle" /\ run = 0
    /\ request = <<>> /\ matchedFolder = None
    /\ clientFolders = <<>> /\ emailToFoldersMap = <<>>
    /\ fi = 1 /\ ei = 1 /\ gi = 1 /\ ti = 1 /\ pi = 1 /\ attempt = 1
    /\ transactions = <<>> /\ pdfs = <<>>
    /\ successfulUploads = <<>> /\ failures = <<>> /\ skipped = <<>>
    /\ multiTransactionFlags = <<>>
    /\ response = 0
    /\ faults = 0 /\ inFault = FALSE
    /\ waits = <<>> /\ answers = <<>> /\ lookups = {} /\ ackedRun = {}
    /\ attempted = [p \in Pairs |-> 0] /\ enumerated = {}
    /\ prevSuccess = {} /\ last = NoLast /\ pairLog = {}
    /\ submitted = [p \in Pairs |-> 0]
    /\ body = NoBody /\ sheetLog = <<>> /\ readLog = {} /\ escaped = None

\* what every invocation resets when it begins
BeginRun(m) ==
    /\ mode' = m
    /\ successfulUploads' = <<>> /\ failures' = <<>>
    /\ multiTransactionFlags' = <<>>
    /\ pdfs' = <<>>
    /\ waits' = <<>> /\ answers' = <<>> /\ lookups' = {} /\ ackedRun' = {}
    /\ attempted' = [p \in Pairs |-> 0] /\ enumerated' = {}
    /\ nameAtStart' = name /\ last' = NoLast /\ pairLog' = {}
    /\ inFault' = FALSE
    /\ sheetLog' = <<>> /\ readLog' = {}

\* res.status(...).json(...): the invocation is over
Respond(status, successes) ==
    /\ response' = status
    /\ pc' = "idle"
    /\ run' = run + 1
    /\ prevSuccess' = {successes[i].driveFileId : i \in DOMAIN successes}

----------------------------------------------------------------------------
(* run-upload.js handler (batch mode) *)

CurEmail == emailToFoldersMap[ei].email
CurFolders == emailToFoldersMap[ei].folders
CurFolder == IF mode = "batch" THEN CurFolders[gi] ELSE matchedFolder
CurTxn == transactions[ti]
CurPdf == pdfs[pi]

\* run-upload.js 36-41: the body of the early return
EmptyBody ==
    [status |-> 200, message |-> "No client folders found with SISU_ID Google Doc",
     successfulUploads |-> <<>>, failures |-> <<>>, skipped |-> <<>>]

\* Mutant: the summary leaves the failures out
SummaryBodyFailuresDropped(successes, failed, skips, flags) ==
    [status |-> 200, message |-> "Upload process completed",
     summary |-> [totalSuccessful |-> Len(successes), totalFailed |-> 0,
                  totalSkipped |-> Len(skips), multiTransactionCount |-> Len(flags)],
     successfulUploads |-> successes, failures |-> <<>>, skipped |-> skips,
     multiTransactionFlags |-> flags]

\* run-upload.js 226-238: the comprehensive summary
SummaryBody(successes, failed, skips, flags) ==
    [status |-> 200, message |-> "Upload process completed",
     summary |-> [totalSuccessful |-> Len(successes), totalFailed |-> Len(failed),
                  totalSkipped |-> Len(skips), multiTransactionCount |-> Len(flags)],
     successfulUploads |-> successes, failures |-> failed, skipped |-> skips,
     multiTransactionFlags |-> flags]

\* run-upload.js 254-257
FatalBody == [status |-> 500, error |-> "Internal server error"]

\* run-upload.js 16-47: authenticate, findClientFolders, deduplicate; a throw
\* of authenticateGoogleDrive (264-285) or of the marker search (298-305)
\* lands in the outer catch (239)
\* the handler called with a POST request, up to its first await
StartBatchCall ==
    /\ pc = "idle" /\ run < MaxRuns
    /\ BeginRun("batch")
    /\ skipped' = <<>>
    /\ \E outcome \in {"ok", "auth", "search"} :
        /\ outcome = "ok" \/ faults < MaxFaultyCalls
        /\ faults' = IF outcome = "ok" THEN faults ELSE faults + 1
        /\ escaped' = IF outcome = "ok" THEN None ELSE outcome
        /\ LET allClientFolders == findClientFolders(marker)
           IN  IF outcome # "ok"
               THEN /\ pc' = "fatal"
                    /\ UNCHANGED <<clientFolders, emailToFoldersMap, loopVars, run, response,
                                   prevSuccess, body>>
               ELSE IF Len(allClientFolders) = 0
               THEN /\ Respond(200, <<>>)
                    /\ body' = EmptyBody
                    /\ UNCHANGED <<clientFolders, emailToFoldersMap, loopVars>>
               ELSE /\ clientFolders' = deduplicateFoldersByPriority(allClientFolders)
                    /\ emailToFoldersMap' = <<>>
                    /\ fi' = 1 /\ ei' = 1 /\ gi' = 1 /\ ti' = 1 /\ pi' = 1 /\ attempt' = 1
                    /\ pc' = "readEmail"
                    /\ UNCHANGED <<run, response, prevSuccess, body>>
    /\ request' = <<>> /\ matchedFolder' = None /\ transactions' = <<>>
    /\ UNCHANGED <<sisuConfigured, unitVars, lateButCron, dvars, storeVars, submitted>>

\* POST /api/run-upload
StartBatch == StartBatchCall /\ UNCHANGED cronVars

\* Mutant: the hard failure is answered only once the fatal row is written
StatusAfterFatalLogStrict(logged) == IF logged THEN 500 ELSE 0

\* run-upload.js 250-257: the error of the fatal log write is logged to the
\* console only
StatusAfterFatalLog(logged) == 500

\* run-upload.js 239-258: the outer catch authenticates again, writes one
\* fatal row with logFailuresToSheet (its errors only logged), answers 500.
\* The store has just failed in this invocation, so either call may fail.
Fatal ==
    /\ mode = "batch" /\ pc = "fatal"
    /\ \E reauth \in BOOLEAN, written \in BOOLEAN :
        /\ reauth \/ written
        /\ sheetLog' = IF reauth
                       THEN <<[kind |-> "failures", rows |-> 1, stage |-> "system",
                               ok |-> written]>>
                       ELSE <<>>
        /\ Respond(StatusAfterFatalLog(reauth /\ written), <<>>)
    /\ body' = FatalBody
    /\ UNCHANGED <<envVars, readLog, escaped, dvars, storeVars, submitted, mode, request,
                   clientFolders, matchedFolder, emailToFoldersMap,
                   loopVars, transactions, pdfs, resultVars, faults, inFault, waits,
                   answers, lookups, ackedRun, attempted, enumerated, nameAtStart, last, pairLog>>

\* emailToFoldersMap.get(clientEmail).push(folder), creating the entry first
MapPush(map, email, folder) ==
    IF \E i \in DOMAIN map : map[i].email = email
    THEN [i \in DOMAIN map |->
            IF map[i].email = email
            THEN [map[i] EXCEPT !.folders = Append(@, folder)]
            ELSE map[i]]
    ELSE Append(map, [email |-> email, folders |-> <<folder>>])

\* where step 5 begins once step 4 has read every folder
AfterReadEmails(map) == IF Len(map) = 0 THEN "log" ELSE "lookup"

\* what readClientEmail returns when the export throws
Null == "null"

\* Mutant: only a failed read counts as empty
IsEmptyMarkerNullOnly(clientEmail) == clientEmail = Null

\* run-upload.js 58: !clientEmail || clientEmail.trim() === ''
IsEmptyMarker(clientEmail) == clientEmail = Null \/ Trim(clientEmail) = <<>>

\* run-upload.js 52-84, one iteration; readClientEmail (417-436) returns the
\* trimmed text, or null when the export throws
ReadEmail ==
    /\ mode = "batch" /\ pc = "readEmail"
    /\ \E ok \in BOOLEAN :
        /\ ok \/ CanFail
        /\ IF ok THEN NoCharge ELSE faults' = faults + 1 /\ UNCHANGED inFault
        /\ LET folder == clientFolders[fi]
               clientEmail == IF ok THEN Trim(marker[folder.folderId]) ELSE Null
               isEmpty == IsEmptyMarker(clientEmail)
               map == IF isEmpty THEN emailToFoldersMap
                      ELSE MapPush(emailToFoldersMap, clientEmail, folder)
           IN  /\ skipped' = IF isEmpty
                             THEN Append(skipped, [folderId |-> folder.folderId, email |-> <<>>,
                                                   reason |-> "SISU_ID file is empty",
                                                   details |-> ""])
                             ELSE skipped
               /\ emailToFoldersMap' = map
               /\ readLog' = readLog \cup {[folder |-> folder.folderId, ok |-> ok]}
               /\ IF fi < Len(clientFolders)
                  THEN fi' = fi + 1 /\ pc' = "readEmail"
                  ELSE fi' = fi /\ pc' = AfterReadEmails(map)
    /\ UNCHANGED <<envVars, body, sheetLog, escaped, dvars, storeVars, submitted, mode, run, request,
                   clientFolders,
                   matchedFolder, ei, gi, ti, pi, attempt, transactions, pdfs, successfulUploads, failures,
                   multiTransactionFlags, response, histVars>>

Goto(p, e, g, t, n) == pc' = p /\ ei' = e /\ gi' = g /\ ti' = t /\ pi' = n

\* the for-of over emailToFoldersMap.entries() moves on (or step 6 begins)
NextEmail ==
    IF ei < Len(emailToFoldersMap) THEN Goto("lookup", ei + 1, 1, 1, 1)
    ELSE Goto("log", ei, 1, 1, 1)

\* the loops over transactions (inner) and folders (outer) move on
NextTransaction ==
    IF ti < Len(transactions) THEN Goto("enumerate", ei, gi, ti + 1, 1)
    ELSE IF gi < Len(CurFolders) THEN Goto("enumerate", ei, gi + 1, 1, 1)
    ELSE NextEmail

\* the loop over pdfs moves on; the single-client handler (part_007 92-126)
\* nests it in the loop over transactions and keeps the one pdfs list, the
\* single-transaction handler (part_006 87-110) has the pdf loop alone
NextPdf ==
    IF pi < Len(pdfs) THEN Goto("download", ei, gi, ti, pi + 1)
    ELSE IF mode = "batch" THEN NextTransaction
    ELSE IF ti < Len(transactions) THEN Goto("download", ei, gi, ti + 1, 1)
    ELSE Goto("log", ei, gi, ti, pi)

FailureRec(folder, fileId, email, clientId, stage) ==
    [folderId |-> folder.folderId, fileId |-> fileId, clientEmail |-> email,
     sisuClientId |-> clientId, stage |-> stage]

SuccessRec(folder, fileId, email, clientId) ==
    [driveFileId |-> fileId, sisuClientId |-> clientId, clientEmail |-> email,
     folderId |-> folder.folderId]

SkipNotInSisu(folders, email, details) ==
    [i \in DOMAIN folders |->
        [folderId |-> folders[i].folderId, email |-> email,
         reason |-> "Email not associated with a SISU transaction", details |-> details]]

\* Mutant: the flag is raised for every identifier that was found
NeedsFlagAlways(txns) == Len(txns) >= 1

\* run-upload.js 111: transactions.length > 1
NeedsFlag(txns) == Len(txns) > 1

\* Mutant: a 404 answer is thrown like any other non-ok status
IsDefinitiveNotFoundNever(status) == FALSE

\* run-upload.js 527: response.status === 404 returns at once
IsDefinitiveNotFound(status) == status = 404

\* run-upload.js 87-127 with findSISUClientWithRetry (505-612): one attempt
LookupAttempt ==
    /\ \E ok \in BOOLEAN :
        /\ ok \/ CanFail
        /\ LET answer == RegistryAnswer(CurEmail)
               thrown == ~ok \/ (answer.status = 404 /\ ~IsDefinitiveNotFound(answer.status))
               heard == Append(answers, IF ~ok THEN "err" ELSE
                                        IF answer.status = 404 THEN "404" ELSE "200")
               result == IF ~thrown THEN LookupResult(answer)
                         ELSE [found |-> FALSE, error |-> "API error after 3 attempts",
                               transactions |-> <<>>]
               record == [email |-> CurEmail, folders |-> CurFolders, answers |-> heard,
                          waits |-> waits, found |-> result.found,
                          count |-> Len(result.transactions)]
           IN  IF thrown /\ attempt < maxRetries
               THEN \* catch, not the last attempt: back off
                    /\ pc' = "lookupWait"
                    /\ answers' = heard
                    /\ IF ok THEN NoCharge ELSE Charge
                    /\ UNCHANGED <<ei, gi, ti, pi, attempt, transactions, skipped,
                                   multiTransactionFlags, lookups, waits>>
               ELSE /\ lookups' = lookups \cup {record}
                    /\ answers' = <<>> /\ waits' = <<>> /\ attempt' = 1
                    /\ inFault' = FALSE
                    /\ faults' = IF ok \/ inFault THEN faults ELSE faults + 1
                    /\ transactions' = result.transactions
                    /\ IF ~result.found
                       THEN /\ skipped' = skipped \o SkipNotInSisu(CurFolders, CurEmail, result.error)
                            /\ NextEmail
                            /\ UNCHANGED multiTransactionFlags
                       ELSE /\ multiTransactionFlags' =
                                  IF NeedsFlag(result.transactions)
                                  THEN Append(multiTransactionFlags,
                                         [email |-> CurEmail,
                                          transactionCount |-> Len(result.transactions),
                                          folders |-> CurFolders])
                                  ELSE multiTransactionFlags
                            /\ Goto("enumerate", ei, 1, 1, 1)
                            /\ UNCHANGED skipped
    /\ UNCHANGED failures

\* run-upload.js 509-511 and 196-207: without its environment variables
\* findSISUClientWithRetry throws before its first attempt; the catch of the
\* email loop records one failure per folder of the email
LookupUnconfigured ==
    /\ failures' = failures \o
          [i \in DOMAIN CurFolders |->
              FailureRec(CurFolders[i], None, CurEmail, None, "process_email")]
    /\ lookups' = lookups \cup
          {[email |-> CurEmail, folders |-> CurFolders, answers |-> <<>>, waits |-> <<>>,
            found |-> FALSE, count |-> 0]}
    /\ NextEmail
    /\ UNCHANGED <<attempt, transactions, skipped, multiTransactionFlags, faults, inFault,
                   waits, answers>>

Lookup ==
    /\ mode = "batch" /\ pc = "lookup"
    /\ IF sisuConfigured THEN LookupAttempt ELSE LookupUnconfigured
    /\ UNCHANGED <<envVars, auditVars, dvars, storeVars, submitted, mode, run, request, clientFolders, matchedFolder,
                   emailToFoldersMap,
                   fi, pdfs, successfulUploads, response,
                   ackedRun, attempted, enumerated, nameAtStart, prevSuccess, last, pairLog>>

\* run-upload.js 609: await setTimeout(1000 * attempt), then attempt++
LookupWait ==
    /\ mode = "batch" /\ pc = "lookupWait"
    /\ waits' = Append(waits, attempt)
    /\ attempt' = attempt + 1
    /\ pc' = "lookup"
    /\ UNCHANGED <<envVars, auditVars, dvars, storeVars, submitted, mode, run, request, clientFolders, matchedFolder,
                   emailToFoldersMap,
                   fi, ei, gi, ti, pi, transactions, pdfs, resultVars, response, faults,
                   inFault, answers, lookups, ackedRun, attempted, enumerated, nameAtStart,
                   prevSuccess, last, pairLog>>

\* Mutant: the folder-level catch gives up on the remaining work of the run
AfterFolderFailureAbort == Goto("log", ei, gi, ti, pi)

\* run-upload.js 184-194: the catch sits inside the loop over transactions,
\* which goes on with the next transaction of the same folder
AfterFolderFailure == NextTransaction

\* the store failed to list this folder earlier in this run
ListingFailed(folderId) == \E e \in enumerated : e.folder = folderId /\ ~e.ok

\* run-upload.js 135-145 and 184-193: findNewPDFs for one (folder, transaction)
Enumerate ==
    /\ mode = "batch" /\ pc = "enumerate"
    /\ \E ok \in BOOLEAN :
        \* a folder the store could not list earlier in this run may still be
        \* unlistable: that is the same fault, not a new one
        /\ ok \/ CanFail \/ ListingFailed(CurFolder.folderId)
        /\ enumerated' = enumerated \cup
              {[folder |-> CurFolder.folderId, txn |-> CurTxn.client_id, ok |-> ok,
                files |-> IF ok THEN findNewPDFs(CurFolder.folderId, name) ELSE <<>>]}
        /\ IF ok \/ ListingFailed(CurFolder.folderId) THEN NoCharge
           ELSE faults' = faults + 1 /\ UNCHANGED inFault
        /\ IF ok
           THEN LET found == findNewPDFs(CurFolder.folderId, name)
                IN  /\ pdfs' = found
                    /\ IF Len(found) = 0 THEN NextTransaction
                       ELSE Goto("download", ei, gi, ti, 1)
                    /\ UNCHANGED failures
           ELSE /\ failures' = Append(failures,
                      FailureRec(CurFolder, None, CurEmail, None, "process_folder"))
                /\ pdfs' = <<>>
                /\ AfterFolderFailure
    /\ attempt' = 1
    /\ UNCHANGED <<envVars, auditVars, dvars, storeVars, submitted, mode, run, request, clientFolders, matchedFolder,
                   emailToFoldersMap,
                   fi, transactions, successfulUploads, skipped, multiTransactionFlags,
                   response, waits, answers, lookups, ackedRun, attempted, nameAtStart,
                   prevSuccess, last, pairLog>>

\* Mutant: the per-file catch gives up on the remaining work of the run
AfterPairFailureAbort == Goto("log", ei, gi, ti, pi)

\* run-upload.js 169-183: the catch ends the iteration, the loop goes on
AfterPairFailure == NextPdf

\* the failure entry of the per-file catch, with the fields the sheet row gets
PairFailure ==
    FailureRec(CurFolder, CurPdf.id,
               IF mode = "batch" THEN CurEmail ELSE IF mode = "email" THEN request ELSE None,
               IF mode = "email" THEN None ELSE CurTxn.client_id,
               "upload_to_sisu")

PairSuccess ==
    SuccessRec(CurFolder, CurPdf.id,
               IF mode = "batch" THEN CurEmail ELSE IF mode = "email" THEN request ELSE None,
               CurTxn.client_id)

LastOf(dl, heard, waited, rn, outcome) ==
    [file |-> CurPdf.id, txn |-> CurTxn.client_id, folder |-> CurFolder.folderId,
     download |-> dl, answers |-> heard, waits |-> waited, rename |-> rn,
     outcome |-> outcome]

\* Mutant: the file is marked before it is submitted
StageAfterDownloadRename == "rename"

\* run-upload.js 150-156: download, then upload, then rename
StageAfterDownload == "upload"

\* run-upload.js 150: downloadFile; a throw lands in the catch of 169-182
DownloadStep(m) ==
    /\ mode = m /\ pc = "download"
    /\ \E ok \in BOOLEAN :
        /\ ok \/ CanFail
        /\ IF ok THEN NoCharge ELSE faults' = faults + 1 /\ UNCHANGED inFault
        /\ IF ok
           THEN /\ pc' = StageAfterDownload
                /\ UNCHANGED <<ei, gi, ti, pi, failures, last, pairLog>>
           ELSE /\ failures' = Append(failures, PairFailure)
                /\ last' = LastOf("err", <<>>, <<>>, None, "failure")
                /\ pairLog' = pairLog \cup {LastOf("err", <<>>, <<>>, None, "failure")}
                /\ AfterPairFailure
    /\ attempt' = 1 /\ waits' = <<>> /\ answers' = <<>>
    /\ UNCHANGED <<envVars, auditVars, dvars, storeVars, submitted, mode, run, request, clientFolders, matchedFolder,
                   emailToFoldersMap,
                   fi, transactions, pdfs, successfulUploads, skipped,
                   multiTransactionFlags, response, lookups, ackedRun, attempted,
                   enumerated, nameAtStart, prevSuccess>>

\* uploadToSISUWithRetry (617-669): one attempt of its loop
UploadStep(m) ==
    /\ mode = m /\ pc = "upload"
    /\ attempted' = [attempted EXCEPT ![<<CurPdf.id, CurTxn.client_id>>] = @ + 1]
    /\ \E ok \in BOOLEAN :
        /\ ok \/ CanFail
        /\ answers' = Append(answers, IF ok THEN "ack" ELSE "err")
        /\ IF ok
           THEN \* return await response.json()
                /\ submitted' = [submitted EXCEPT ![<<CurPdf.id, CurTxn.client_id>>] = @ + 1]
                /\ ackedRun' = ackedRun \cup {<<CurPdf.id, CurTxn.client_id>>}
                /\ pc' = "rename"
                /\ EndCall
                /\ UNCHANGED <<ei, gi, ti, pi, failures, last, pairLog>>
           ELSE IF attempt = maxRetries
           THEN \* throw new Error('Upload failed after 3 attempts'), caught at 169
                /\ failures' = Append(failures, PairFailure)
                /\ last' = LastOf("ok", answers', waits, None, "failure")
                /\ pairLog' = pairLog \cup {LastOf("ok", answers', waits, None, "failure")}
                /\ AfterPairFailure
                /\ inFault' = FALSE
                /\ faults' = IF inFault THEN faults ELSE faults + 1
                /\ UNCHANGED <<submitted, ackedRun>>
           ELSE /\ pc' = "uploadWait"
                /\ Charge
                /\ UNCHANGED <<ei, gi, ti, pi, failures, last, pairLog, submitted, ackedRun>>
    /\ UNCHANGED <<envVars, auditVars, dvars, storeVars, mode, run, request, clientFolders, matchedFolder,
                   emailToFoldersMap,
                   fi, attempt, transactions, pdfs, successfulUploads, skipped,
                   multiTransactionFlags, response, waits, lookups,
                   enumerated, nameAtStart, prevSuccess>>

\* Mutant: a constant one-second backoff
BackoffSecondsFlat(n) == 1

\* run-upload.js 666: 1000 * attempt milliseconds
BackoffSeconds(n) == n

\* run-upload.js 666: await setTimeout(1000 * attempt), then attempt++
UploadWaitStep(m) ==
    /\ mode = m /\ pc = "uploadWait"
    /\ waits' = Append(waits, BackoffSeconds(attempt))
    /\ attempt' = attempt + 1
    /\ pc' = "upload"
    /\ UNCHANGED <<envVars, auditVars, dvars, storeVars, submitted, mode, run, request, clientFolders, matchedFolder,
                   emailToFoldersMap,
                   fi, ei, gi, ti, pi, transactions, pdfs, resultVars, response, faults,
                   inFault, answers, lookups, ackedRun, attempted, enumerated, nameAtStart,
                   prevSuccess, last, pairLog>>

\* run-upload.js 156-167: renameFileAsUploaded (674-686), then the success entry
RenameStep(m) ==
    /\ mode = m /\ pc = "rename"
    /\ \E ok \in BOOLEAN :
        /\ ok \/ CanFail
        /\ IF ok THEN NoCharge ELSE faults' = faults + 1 /\ UNCHANGED inFault
        /\ IF ok
           THEN /\ name' = [name EXCEPT ![CurPdf.id] = UploadedName(CurPdf.name)]
                /\ successfulUploads' = Append(successfulUploads,
                      PairSuccess)
                /\ last' = LastOf("ok", answers, waits, "ok", "success")
                /\ pairLog' = pairLog \cup {LastOf("ok", answers, waits, "ok", "success")}
                /\ NextPdf
                /\ UNCHANGED failures
           ELSE /\ failures' = Append(failures, PairFailure)
                /\ last' = LastOf("ok", answers, waits, "err", "failure")
                /\ pairLog' = pairLog \cup {LastOf("ok", answers, waits, "err", "failure")}
                /\ AfterPairFailure
                /\ UNCHANGED <<name, successfulUploads>>
    /\ attempt' = 1 /\ waits' = <<>> /\ answers' = <<>>
    /\ UNCHANGED <<envVars, auditVars, dvars, marker, submitted, mode, run, request, clientFolders, matchedFolder,
                   emailToFoldersMap,
                   fi, transactions, pdfs, skipped, multiTransactionFlags, response,
                   lookups, ackedRun, attempted, enumerated, nameAtStart, prevSuccess>>

Download == DownloadStep("batch")
Upload == UploadStep("batch")
UploadWait == UploadWaitStep("batch")
Rename == RenameStep("batch")

\* run-upload.js 212-220: the sheet writes step 6 makes, in order
PlannedWrites(failed, skips, flags) ==
    (IF Len(failed) > 0
     THEN <<[kind |-> "failures", rows |-> Len(failed), stage |-> "items"]>> ELSE <<>>)
    \o (IF Len(skips) > 0
        THEN <<[kind |-> "skipped", rows |-> Len(skips), stage |-> "items"]>> ELSE <<>>)
    \o (IF Len(flags) > 0
        THEN <<[kind |-> "flags", rows |-> Len(flags), stage |-> "items"]>> ELSE <<>>)

\* Mutant: a sheet error is surfaced to the caller
StatusAfterLogStrict(sheetOk) == IF sheetOk THEN 200 ELSE 500

\* run-upload.js 221-226: the sheet error is logged to the console only
StatusAfterLog(sheetOk) == 200

\* run-upload.js 210-238: write the sheets in one try (the first write that
\* throws ends step 6), answer 200 with the summary
Log ==
    /\ mode = "batch" /\ pc = "log"
    /\ LET planned == PlannedWrites(failures, skipped, multiTransactionFlags)
       IN  \E k \in 0..Len(planned) :
              \* k = 0: every write succeeds; otherwise the k-th write throws
              /\ k = 0 \/ faults < MaxFaultyCalls
              /\ faults' = IF k = 0 THEN faults ELSE faults + 1
              /\ sheetLog' = [i \in 1..(IF k = 0 THEN Len(planned) ELSE k) |->
                                 [kind |-> planned[i].kind, rows |-> planned[i].rows,
                                  stage |-> planned[i].stage, ok |-> (i # k)]]
              /\ Respond(StatusAfterLog(k = 0), successfulUploads)
    /\ body' = SummaryBody(successfulUploads, failures, skipped, multiTransactionFlags)
    /\ UNCHANGED <<envVars, readLog, escaped, dvars, storeVars, submitted, mode, request,
                   clientFolders, matchedFolder,
                   emailToFoldersMap,
                   loopVars, transactions, pdfs, resultVars, inFault, waits,
                   answers, lookups, ackedRun, attempted, enumerated, nameAtStart, last, pairLog>>

----------------------------------------------------------------------------
(* Single-client handler, by email (part_007) *)

\* part_007 22-34: authenticate, findClientFolders (no deduplication)
EmailStart ==
    /\ pc = "idle" /\ run < MaxRuns
    /\ BeginRun("email")
    /\ skipped' = <<>> /\ matchedFolder' = None /\ emailToFoldersMap' = <<>>
    /\ transactions' = <<>>
    /\ \E email \in EmailRequests : request' = email
    /\ LET allClientFolders == findClientFolders(marker)
       IN  IF Len(allClientFolders) = 0
           THEN /\ Respond(404, <<>>)
                /\ UNCHANGED <<clientFolders, loopVars>>
           ELSE /\ clientFolders' = allClientFolders
                /\ fi' = 1 /\ ei' = 1 /\ gi' = 1 /\ ti' = 1 /\ pi' = 1 /\ attempt' = 1
                /\ pc' = "matchFolder"
                /\ UNCHANGED <<run, response, prevSuccess>>
    /\ escaped' = None
    /\ UNCHANGED <<envVars, body, dvars, storeVars, submitted, faults>>

\* part_007 39-57: one iteration of the search for the folder of this email
EmailMatch ==
    /\ mode = "email" /\ pc = "matchFolder"
    /\ \E ok \in BOOLEAN :
        /\ ok \/ CanFail
        /\ IF ok THEN NoCharge ELSE faults' = faults + 1 /\ UNCHANGED inFault
        /\ LET folder == clientFolders[fi]
               folderEmail == IF ok THEN Trim(marker[folder.folderId]) ELSE <<>>
               clientEmail == ToLower(Trim(request))
               matches == folderEmail # <<>> /\ ToLower(Trim(folderEmail)) = clientEmail
           IN  IF matches
               THEN /\ matchedFolder' = folder
                    /\ pc' = "lookup"
                    /\ UNCHANGED <<fi, run, response, prevSuccess>>
               ELSE IF fi < Len(clientFolders)
               THEN /\ fi' = fi + 1
                    /\ UNCHANGED <<pc, matchedFolder, run, response, prevSuccess>>
               ELSE /\ Respond(404, <<>>)
                    /\ UNCHANGED <<fi, matchedFolder>>
    /\ UNCHANGED <<envVars, auditVars, dvars, storeVars, submitted, mode, request, clientFolders,
                   emailToFoldersMap, ei, gi, ti, pi, attempt, transactions, pdfs,
                   resultVars, waits, answers, lookups, ackedRun, attempted, enumerated,
                   nameAtStart, last, pairLog>>

\* Mutant: the single-client lookup filters by status as the batch lookup does
LookupResultAllActiveOnly(answer) == LookupResult(answer)

\* part_007 findSISUClientWithRetry (351-438): every client counts, whatever
\* its status
LookupResultAll(answer) ==
    IF answer.status = 404
    THEN [found |-> FALSE, error |-> "Email not found in SISU", transactions |-> <<>>]
    ELSE IF Len(answer.clients) = 0
    THEN [found |-> FALSE, error |-> "No clients found for email", transactions |-> <<>>]
    ELSE [found |-> TRUE, error |-> "",
          transactions |-> [i \in DOMAIN answer.clients |->
              [client_id |-> answer.clients[i].client_id,
               role |-> IF answer.clients[i].type_id = "b" THEN "buyer"
                        ELSE IF answer.clients[i].type_id = "s" THEN "seller"
                        ELSE "unknown"]]]

\* part_007 62-72 with findSISUClientWithRetry: one attempt; the lookup is
\* made with the request's email as received
EmailLookup ==
    /\ mode = "email" /\ pc = "lookup"
    /\ \E ok \in BOOLEAN :
        /\ ok \/ CanFail
        /\ LET answer == RegistryAnswer(request)
               heard == Append(answers, IF ~ok THEN "err" ELSE
                                        IF answer.status = 404 THEN "404" ELSE "200")
               result == IF ok THEN LookupResultAll(answer)
                         ELSE [found |-> FALSE, error |-> "API error after 3 attempts",
                               transactions |-> <<>>]
               record == [email |-> request, folders |-> <<matchedFolder>>, answers |-> heard,
                          waits |-> waits, found |-> result.found,
                          count |-> Len(result.transactions)]
           IN  IF ~ok /\ attempt < maxRetries
               THEN /\ pc' = "lookupWait"
                    /\ answers' = heard
                    /\ Charge
                    /\ UNCHANGED <<attempt, transactions, lookups, waits, run, response,
                                   prevSuccess>>
               ELSE /\ lookups' = lookups \cup {record}
                    /\ answers' = <<>> /\ waits' = <<>> /\ attempt' = 1
                    /\ inFault' = FALSE
                    /\ faults' = IF ok \/ inFault THEN faults ELSE faults + 1
                    /\ transactions' = result.transactions
                    /\ IF ~result.found
                       THEN Respond(404, <<>>)
                       ELSE pc' = "enumerate" /\ UNCHANGED <<run, response, prevSuccess>>
    /\ UNCHANGED <<envVars, auditVars, dvars, storeVars, submitted, mode, request, clientFolders, matchedFolder,
                   emailToFoldersMap, fi, ei, gi, ti, pi, pdfs, resultVars,
                   ackedRun, attempted, enumerated, nameAtStart, last, pairLog>>

\* part_007 435: await setTimeout(1000 * attempt), then attempt++
EmailLookupWait ==
    /\ mode = "email" /\ pc = "lookupWait"
    /\ waits' = Append(waits, attempt)
    /\ attempt' = attempt + 1
    /\ pc' = "lookup"
    /\ UNCHANGED <<envVars, auditVars, dvars, storeVars, submitted, mode, run, request, clientFolders,
                   matchedFolder, emailToFoldersMap, fi, ei, gi, ti, pi, transactions, pdfs,
                   resultVars, response, faults, inFault, answers, lookups, ackedRun,
                   attempted, enumerated, nameAtStart, prevSuccess, last, pairLog>>

\* part_007 79-89 / part_006 74-85: findNewPDFs once for the matched folder;
\* a throw reaches the handler's outer catch (500)
EnumerateOnce(m) ==
    /\ mode = m /\ pc = "enumerate"
    /\ \E ok \in BOOLEAN :
        /\ ok \/ CanFail
        /\ enumerated' = enumerated \cup
              {[folder |-> matchedFolder.folderId, txn |-> None, ok |-> ok,
                files |-> IF ok THEN findNewPDFs(matchedFolder.folderId, name) ELSE <<>>]}
        /\ IF ok THEN NoCharge ELSE faults' = faults + 1 /\ UNCHANGED inFault
        /\ IF ok
           THEN LET found == findNewPDFs(matchedFolder.folderId, name)
                IN  /\ pdfs' = found
                    /\ IF Len(found) = 0
                       THEN Respond(200, <<>>) /\ UNCHANGED <<ei, gi, ti, pi>>
                       ELSE Goto("download", ei, gi, 1, 1)
                            /\ UNCHANGED <<run, response, prevSuccess>>
           ELSE /\ pdfs' = <<>>
                /\ Respond(500, <<>>)
                /\ UNCHANGED <<ei, gi, ti, pi>>
    /\ UNCHANGED <<envVars, auditVars, dvars, storeVars, submitted, mode, request, clientFolders, matchedFolder,
                   emailToFoldersMap, fi, attempt, transactions, resultVars,
                   waits, answers, lookups, ackedRun, attempted, nameAtStart, last, pairLog>>

\* part_007 128-150 / part_006 112-135: log the failures (errors only logged),
\* answer 200
LogSingle(m) ==
    /\ mode = m /\ pc = "log"
    /\ Respond(200, successfulUploads)
    /\ UNCHANGED <<envVars, auditVars, dvars, storeVars, submitted, mode, request, clientFolders, matchedFolder,
                   emailToFoldersMap, loopVars, transactions, pdfs, resultVars, faults,
                   inFault, waits, answers, lookups, ackedRun, attempted, enumerated,
                   nameAtStart, last, pairLog>>

EmailEnumerate == EnumerateOnce("email")
EmailDownload == DownloadStep("email")
EmailUpload == UploadStep("email")
EmailUploadWait == UploadWaitStep("email")
EmailRename == RenameStep("email")
EmailLog == LogSingle("email")

----------------------------------------------------------------------------
(* Single-transaction handler, by transaction id (part_006) *)

\* part_006 14-44: parse the id, verifySISUTransaction (172-213, one attempt,
\* null on any error), findClientFolders
IdStart ==
    /\ pc = "idle" /\ run < MaxRuns
    /\ BeginRun("id")
    /\ skipped' = <<>> /\ matchedFolder' = None /\ emailToFoldersMap' = <<>>
    /\ \E transactionId \in IdRequests, ok \in BOOLEAN :
        /\ ok \/ CanFail
        /\ faults' = IF ok THEN faults ELSE faults + 1
        /\ request' = transactionId
        /\ LET clientId == ParseInt(Trim(transactionId))
               sisuClient == ok /\ RegistryKnowsId(clientId)
               allClientFolders == findClientFolders(marker)
           IN  IF ~sisuClient
               THEN /\ Respond(404, <<>>)
                    /\ transactions' = <<>>
                    /\ UNCHANGED <<clientFolders, loopVars>>
               ELSE IF Len(allClientFolders) = 0
               THEN /\ Respond(404, <<>>)
                    /\ transactions' = <<[client_id |-> clientId, role |-> "unknown"]>>
                    /\ UNCHANGED <<clientFolders, loopVars>>
               ELSE /\ clientFolders' = allClientFolders
                    /\ transactions' = <<[client_id |-> clientId, role |-> "unknown"]>>
                    /\ fi' = 1 /\ ei' = 1 /\ gi' = 1 /\ ti' = 1 /\ pi' = 1 /\ attempt' = 1
                    /\ pc' = "matchFolder"
                    /\ UNCHANGED <<run, response, prevSuccess>>
    /\ escaped' = None
    /\ UNCHANGED <<envVars, body, dvars, storeVars, submitted>>

\* part_006 48-66: one iteration of the search for the folder of this id;
\* readTransactionId (302-319) returns the trimmed text, null on error
IdMatch ==
    /\ mode = "id" /\ pc = "matchFolder"
    /\ \E ok \in BOOLEAN :
        /\ ok \/ CanFail
        /\ IF ok THEN NoCharge ELSE faults' = faults + 1 /\ UNCHANGED inFault
        /\ LET folder == clientFolders[fi]
               folderTransactionId == IF ok THEN Trim(marker[folder.folderId]) ELSE <<>>
               targetId == Trim(request)
               matches == folderTransactionId # <<>> /\ Trim(folderTransactionId) = targetId
           IN  IF matches
               THEN /\ matchedFolder' = folder
                    /\ pc' = "enumerate"
                    /\ UNCHANGED <<fi, run, response, prevSuccess>>
               ELSE IF fi < Len(clientFolders)
               THEN /\ fi' = fi + 1
                    /\ UNCHANGED <<pc, matchedFolder, run, response, prevSuccess>>
               ELSE /\ Respond(404, <<>>)
                    /\ UNCHANGED <<fi, matchedFolder>>
    /\ UNCHANGED <<envVars, auditVars, dvars, storeVars, submitted, mode, request, clientFolders,
                   emailToFoldersMap, ei, gi, ti, pi, attempt, transactions, pdfs,
                   resultVars, waits, answers, lookups, ackedRun, attempted, enumerated,
                   nameAtStart, last, pairLog>>

IdEnumerate == EnumerateOnce("id")
IdDownload == DownloadStep("id")
IdUpload == UploadStep("id")
IdUploadWait == UploadWaitStep("id")
IdRename == RenameStep("id")
IdLog == LogSingle("id")

----------------------------------------------------------------------------
(* Specification of the batch handler invoked repeatedly *)

Init ==
    /\ marker \in [Folders -> Contents]
    /\ sisuConfigured \in BOOLEAN
    /\ name = [f \in Files |-> InitialName(f)]
    /\ nameAtStart = [f \in Files |-> InitialName(f)]
    /\ RunIdle /\ UnitsOff
    /\ allFolders = <<>> /\ selectedFolders = <<>> /\ dpc = "off"

Next ==
    \/ StartBatch
    \/ ReadEmail
    \/ Lookup
    \/ LookupWait
    \/ Enumerate
    \/ Download
    \/ Upload
    \/ UploadWait
    \/ Rename
    \/ Log
    \/ Fatal

Spec == Init /\ [][Next]_vars

\* the steps of a running batch invocation: each runs from one await to the
\* next, and every awaited store or registry call returns or throws
HandlerStep ==
    \/ ReadEmail \/ Lookup \/ LookupWait \/ Enumerate \/ Download
    \/ Upload \/ UploadWait \/ Rename \/ Log \/ Fatal

IsNoMarkerLive(content) == ToString(content) = ToString(NoMarker)

\* the stores the handler is run to its end over: any marker in F1; no marker
\* or the marker of a client with two transactions in F2 (nested) and F3
InitLive ==
    /\ Init
    /\ \A f \in {"F2", "F3"} : <<"e1">> = marker[f] \/ IsNoMarkerLive(marker[f])

\* the batch handler when no awaited call hangs
SpecLive == InitLive /\ [][Next]_vars /\ WF_vars(HandlerStep)

----------------------------------------------------------------------------
(* Specification of the three handlers invoked in any order *)

InitModes ==
    /\ marker \in [Folders -> ModeContents]
    /\ sisuConfigured = TRUE
    /\ name = [f \in Files |-> InitialName(f)]
    /\ nameAtStart = [f \in Files |-> InitialName(f)]
    /\ RunIdle /\ UnitsOff
    /\ allFolders = <<>> /\ selectedFolders = <<>> /\ dpc = "off"

NextModes ==
    \/ Next
    \/ EmailStart \/ EmailMatch \/ EmailLookup \/ EmailLookupWait \/ EmailEnumerate
    \/ EmailDownload \/ EmailUpload \/ EmailUploadWait \/ EmailRename \/ EmailLog
    \/ IdStart \/ IdMatch \/ IdEnumerate
    \/ IdDownload \/ IdUpload \/ IdUploadWait \/ IdRename \/ IdLog

SpecModes == InitModes /\ [][NextModes]_vars

----------------------------------------------------------------------------
(* Specification of the deduplication alone: any list of discovered records *)

FolderRecs(n) == [1..n -> Paths]

MkRecords(pathOf) == [i \in DOMAIN pathOf |-> [folderId |-> i, folderPath |-> pathOf[i]]]

DInit ==
    /\ \E n \in 0..MaxFolders : \E pathOf \in FolderRecs(n) : allFolders = MkRecords(pathOf)
    /\ selectedFolders = <<>>
    /\ dpc = "input"
    /\ sisuConfigured = TRUE
    /\ marker = [f \in Folders |-> NoMarker]
    /\ name = [f \in Files |-> InitialName(f)]
    /\ nameAtStart = [f \in Files |-> InitialName(f)]
    /\ RunIdle /\ UnitsOff

Deduplicate ==
    /\ dpc = "input"
    /\ selectedFolders' = deduplicateFoldersByPriority(allFolders)
    /\ dpc' = "done"
    /\ UNCHANGED <<allFolders, storeVars, runVars, envVars, auditVars>>

DNext == Deduplicate

SpecDedup == DInit /\ [][DNext]_vars

----------------------------------------------------------------------------
(* The Audit Log functions called alone, in any order, on a deployment    *)
(* whose Shared Drive has no SISU_Upload_Errors spreadsheet yet           *)

MaxSheetCalls == 3

\* no handler runs
HandlersOff ==
    /\ sisuConfigured = TRUE
    /\ name = [f \in Files |-> InitialName(f)]
    /\ nameAtStart = [f \in Files |-> InitialName(f)]
    /\ RunIdle
    /\ allFolders = <<>> /\ selectedFolders = <<>> /\ dpc = "off"

\* everything but the component exercised alone is at rest
CoreOff == HandlersOff /\ marker = [f \in Folders |-> NoMarker]

Dests == {"Errors", "Skipped", "Multi-Transaction Flags"}

\* the only tab of a spreadsheet that drive.files.create has just made
DefaultTab == "Sheet1"

\* run-upload.js 708-721, 781-794, 873-886: use the spreadsheet found by name
\* or create it
FindOrCreate(b) == IF b.exists THEN b ELSE [b EXCEPT !.exists = TRUE, !.tabs = {DefaultTab}]

\* values.update / values.append: the Sheets API rejects a range that names a
\* tab the spreadsheet does not have
RangeOk(b, tab) == tab \in b.tabs

Appended(b, tab) == [b EXCEPT !.rows = Append(@, tab)]

\* run-upload.js 691-761: the header row is written only by the call that
\* creates the spreadsheet, and no tab named Errors is ever added
LogFailuresToSheet ==
    /\ sheetCalls < MaxSheetCalls
    /\ LET found == book.exists
           b1 == FindOrCreate(book)
           headerThrows == ~found /\ ~RangeOk(b1, "Errors")
           b2 == IF ~found /\ ~headerThrows
                 THEN [b1 EXCEPT !.header = @ \cup {"Errors"}] ELSE b1
           appendOk == ~headerThrows /\ RangeOk(b2, "Errors")
       IN /\ book' = IF appendOk THEN Appended(b2, "Errors") ELSE b2
          /\ lastAppend' = [dest |-> "Errors", ok |-> appendOk, fault |-> "none"]
    /\ sheetCalls' = sheetCalls + 1
    /\ UNCHANGED <<sheetFaults, nameVars, pathVars, findVars, cacheVars, coreVars>>

\* run-upload.js 799-831, 891-923: the try block that adds the tab and its
\* header row; what it throws is logged to the console only
EnsureTab(b, tab, fault) ==
    IF fault = "get" \/ tab \in b.tabs THEN b
    ELSE IF fault = "addSheet" THEN b
    ELSE IF fault = "header" THEN [b EXCEPT !.tabs = @ \cup {tab}]
    ELSE [b EXCEPT !.tabs = @ \cup {tab}, !.header = @ \cup {tab}]

SheetFaultKinds == {"none", "get", "addSheet", "header", "append"}

\* run-upload.js 766-852 and 857-943: the two functions differ in the tab,
\* the header and the row layout only
LogToTab(tab) ==
    /\ sheetCalls < MaxSheetCalls
    /\ \E fault \in SheetFaultKinds :
          /\ fault # "none" => sheetFaults < MaxFaultyCalls
          /\ fault \in {"addSheet", "header"} => tab \notin FindOrCreate(book).tabs
          /\ LET b1 == FindOrCreate(book)
                 b2 == EnsureTab(b1, tab, fault)
                 appendOk == fault # "append" /\ RangeOk(b2, tab)
             IN /\ book' = IF appendOk THEN Appended(b2, tab) ELSE b2
                /\ lastAppend' = [dest |-> tab, ok |-> appendOk, fault |-> fault]
          /\ sheetFaults' = IF fault = "none" THEN sheetFaults ELSE sheetFaults + 1
    /\ sheetCalls' = sheetCalls + 1
    /\ UNCHANGED <<nameVars, pathVars, findVars, cacheVars, coreVars>>

LogSkippedToSheet == LogToTab("Skipped")

LogMultiTransactionFlags == LogToTab("Multi-Transaction Flags")

ShInit == CoreOff /\ UnitsOff

ShNext == LogFailuresToSheet \/ LogSkippedToSheet \/ LogMultiTransactionFlags

SpecSheets == ShInit /\ [][ShNext]_vars


----------------------------------------------------------------------------
(* renameFileAsUploaded and removeUploadedSuffix applied to one PDF's name *)

MaxNameLen == 3

NameTokens == {"a", "_UPLOADED", "_uploaded", ".pdf", ".PDF"}

\* names a PDF of the store may have
FileNames == SeqsUpTo(NameTokens, MaxNameLen) \ {<<>>}

\* remove-suffix.js 108-120: currentName.replace(/_UPLOADED\.pdf$/i, '.pdf')
removeUploadedSuffix(currentName) ==
    LET n == Len(currentName)
    IN  IF n >= 2 /\ currentName[n - 1] \in {"_UPLOADED", "_uploaded"}
              /\ currentName[n] \in {".pdf", ".PDF"}
        THEN SubSeq(currentName, 1, n - 2) \o <<".pdf">>
        ELSE currentName

\* a PDF that findNewPDFs returns
NInit ==
    /\ CoreOff /\ SheetsOff /\ PathsOff /\ FindOff /\ CacheOff /\ LateOff
    /\ origName \in FileNames /\ IsNewPdf(origName)
    /\ curName = origName
    /\ npc = "new"

\* run-upload.js 674-686
MarkName ==
    /\ npc = "new"
    /\ curName' = UploadedName(curName)
    /\ npc' = "marked"
    /\ UNCHANGED <<origName, sheetVars, pathVars, findVars, cacheVars, coreVars>>

\* remove-suffix.js 108-120
UndoName ==
    /\ npc = "marked"
    /\ curName' = removeUploadedSuffix(curName)
    /\ npc' = "undone"
    /\ UNCHANGED <<origName, sheetVars, pathVars, findVars, cacheVars, coreVars>>

NNext == MarkName \/ UndoName

SpecNames == NInit /\ [][NNext]_vars


----------------------------------------------------------------------------
(* Specification of the batch handler on markers that spell one email in  *)
(* different letter case and with surrounding white space                 *)

CaseContents == {NoMarker, <<"e1">>, <<"E1">>, <<" ", "e1", " ">>}

InitCase ==
    /\ marker \in [Folders -> CaseContents]
    /\ sisuConfigured \in BOOLEAN
    /\ name = [f \in Files |-> InitialName(f)]
    /\ nameAtStart = [f \in Files |-> InitialName(f)]
    /\ RunIdle /\ UnitsOff
    /\ allFolders = <<>> /\ selectedFolders = <<>> /\ dpc = "off"

SpecCase == InitCase /\ [][Next]_vars


----------------------------------------------------------------------------
(* Batch handler by transaction id (remove-suffix.js 364-520): every      *)
(* subfolder of Under Contract that holds a SISU_ID doc is uploaded to    *)
(* the transaction its marker names                                       *)

\* marker contents: none, blank, a transaction id, an id followed by white
\* space, an id the registry does not know, a text that is no number
IdContents == {NoMarker, <<" ">>, <<"t3">>, <<"t3", " ">>, <<"t9">>, <<"x">>}

\* what the marker of a folder below a client folder may hold
NestedIdContents == {NoMarker, <<"t3">>}

UnderContract == "root"

\* remove-suffix.js 546-583: the direct subfolders of Under Contract that hold
\* a SISU_ID doc, in name order
findClientFoldersUnderContract(markers) ==
    LET withMarker == SelectSeq(SubfoldersOf(UnderContract), LAMBDA id : markers[id] # NoMarker)
    IN  [i \in DOMAIN withMarker |->
            [folderId |-> withMarker[i],
             folderPath |-> <<"*Under Contract", FolderName(withMarker[i])>>]]

\* remove-suffix.js 487-496: the summary has no multi-transaction flags
IdBatchBody(successes, failed, skips) ==
    [status |-> 200, message |-> "Upload process completed",
     summary |-> [totalSuccessful |-> Len(successes), totalFailed |-> Len(failed),
                  totalSkipped |-> Len(skips)],
     successfulUploads |-> successes, failures |-> failed, skipped |-> skips]

\* remove-suffix.js 369-391: authenticate, findClientFolders; a throw lands in
\* the outer catch (498)
IbStart ==
    /\ pc = "idle" /\ run < MaxRuns
    /\ BeginRun("idbatch")
    /\ skipped' = <<>> /\ transactions' = <<>>
    /\ \E outcome \in {"ok", "auth", "search"} :
        /\ outcome = "ok" \/ faults < MaxFaultyCalls
        /\ faults' = IF outcome = "ok" THEN faults ELSE faults + 1
        /\ escaped' = IF outcome = "ok" THEN None ELSE outcome
        /\ LET allClientFolders == findClientFoldersUnderContract(marker)
           IN  IF outcome # "ok"
               THEN /\ pc' = "fatal"
                    /\ UNCHANGED <<clientFolders, fi, pi, run, response, prevSuccess, body>>
               ELSE IF Len(allClientFolders) = 0
               THEN /\ Respond(200, <<>>)
                    /\ body' = EmptyBody
                    /\ UNCHANGED <<clientFolders, fi, pi>>
               ELSE /\ clientFolders' = allClientFolders
                    /\ fi' = 1 /\ pi' = 1
                    /\ pc' = "readId"
                    /\ UNCHANGED <<run, response, prevSuccess, body>>
    /\ UNCHANGED <<envVars, dvars, storeVars, submitted, request, matchedFolder,
                   emailToFoldersMap, ei, gi, ti, attempt>>

\* remove-suffix.js 498-519: the outer catch, as in run-upload.js
IbFatal ==
    /\ mode = "idbatch" /\ pc = "fatal"
    /\ \E reauth \in BOOLEAN, written \in BOOLEAN :
        /\ reauth \/ written
        /\ sheetLog' = IF reauth
                       THEN <<[kind |-> "failures", rows |-> 1, stage |-> "system",
                               ok |-> written]>>
                       ELSE <<>>
        /\ Respond(500, <<>>)
    /\ body' = FatalBody
    /\ UNCHANGED <<envVars, readLog, escaped, dvars, storeVars, submitted, mode, request,
                   clientFolders, matchedFolder, emailToFoldersMap,
                   loopVars, transactions, pdfs, resultVars, faults, inFault, waits,
                   answers, lookups, ackedRun, attempted, enumerated, nameAtStart, last, pairLog>>

\* the for-of over clientFolders moves on (or step 5 begins)
IbNextFolder ==
    IF fi < Len(clientFolders) THEN fi' = fi + 1 /\ pc' = "readId" /\ pi' = 1
    ELSE fi' = fi /\ pc' = "log" /\ pi' = 1

\* Mutant: a marker that is no number is processed like any other
IsInvalidIdNever(clientId) == FALSE

\* remove-suffix.js 412: isNaN(clientId)
IsInvalidId(clientId) == clientId = "NaN"

IbSkip(folder, reason) ==
    [folderId |-> folder.folderId, email |-> <<>>, reason |-> reason, details |-> ""]

\* remove-suffix.js 394-431: read the marker (readTransactionId, 588-605:
\* trimmed text, null when the export throws), skip an empty or non-numeric
\* one, else enumerate the new PDFs; a throw of findNewPDFs lands in the
\* folder's catch (465-473)
IbFolder ==
    /\ mode = "idbatch" /\ pc = "readId"
    /\ \E readOk \in BOOLEAN, listOk \in BOOLEAN :
        LET folder == clientFolders[fi]
            transactionId == IF readOk THEN Trim(marker[folder.folderId]) ELSE Null
            isEmpty == IsEmptyMarker(transactionId)
            clientId == IF isEmpty THEN "NaN" ELSE ParseInt(Trim(transactionId))
            lists == ~isEmpty /\ ~IsInvalidId(clientId)
            found == findNewPDFs(folder.folderId, name)
        IN  /\ (~lists => listOk)
            /\ (readOk /\ listOk) \/ faults < MaxFaultyCalls
            /\ faults' = IF readOk /\ listOk THEN faults ELSE faults + 1
            /\ readLog' = readLog \cup {[folder |-> folder.folderId, ok |-> readOk]}
            /\ skipped' = IF isEmpty THEN Append(skipped, IbSkip(folder, "SISU_ID file is empty"))
                          ELSE IF IsInvalidId(clientId)
                          THEN Append(skipped, IbSkip(folder, "Invalid transaction ID"))
                          ELSE skipped
            /\ enumerated' = IF lists
                             THEN enumerated \cup
                                     {[folder |-> folder.folderId, txn |-> clientId, ok |-> listOk,
                                       files |-> IF listOk THEN found ELSE <<>>]}
                             ELSE enumerated
            /\ failures' = IF lists /\ ~listOk
                           THEN Append(failures,
                                       FailureRec(folder, None, None, None, "process_folder"))
                           ELSE failures
            /\ IF lists /\ listOk /\ Len(found) > 0
               THEN /\ pdfs' = found
                    /\ transactions' = <<[client_id |-> clientId, role |-> "unknown"]>>
                    /\ pc' = "pair" /\ pi' = 1 /\ fi' = fi
               ELSE /\ IbNextFolder
                    /\ UNCHANGED <<pdfs, transactions>>
    /\ UNCHANGED <<envVars, body, sheetLog, escaped, dvars, storeVars, submitted, mode, run,
                   request, clientFolders, matchedFolder, emailToFoldersMap, ei, gi, ti,
                   attempt, successfulUploads, multiTransactionFlags, response, inFault,
                   waits, answers, lookups, ackedRun, attempted, nameAtStart, prevSuccess,
                   last, pairLog>>

\* what POST /client/documents answers to each attempt when errs attempts fail
UploadAnswers(errs) ==
    [i \in 1..(IF errs = maxRetries THEN maxRetries ELSE errs + 1) |->
        IF i <= errs THEN "err" ELSE "ack"]

\* remove-suffix.js 434-463: one PDF of the folder: downloadFile,
\* uploadToSISUWithRetry (669-718), renameFileAsUploaded, the success entry;
\* whatever throws lands in the per-file catch. The registry rejects a
\* document for a client_id it does not know.
IbPair ==
    /\ mode = "idbatch" /\ pc = "pair"
    /\ \E dl \in BOOLEAN, errs \in 0..maxRetries, rn \in BOOLEAN :
        LET folder == clientFolders[fi]
            pdf == pdfs[pi]
            clientId == transactions[1].client_id
            known == RegistryKnowsId(clientId)
            acked == dl /\ errs < maxRetries
            cost == (IF dl THEN 0 ELSE 1) + (IF known /\ errs > 0 THEN 1 ELSE 0)
                    + (IF rn THEN 0 ELSE 1)
            heard == IF dl THEN UploadAnswers(errs) ELSE <<>>
            rec == [file |-> pdf.id, txn |-> clientId, folder |-> folder.folderId,
                    download |-> IF dl THEN "ok" ELSE "err",
                    answers |-> heard,
                    waits |-> [i \in 1..(Len(heard) - 1) |-> BackoffSeconds(i)],
                    rename |-> IF ~acked THEN None ELSE IF rn THEN "ok" ELSE "err",
                    outcome |-> IF acked /\ rn THEN "success" ELSE "failure"]
        IN  /\ (~dl => errs = 0)
            /\ (~acked => rn)
            /\ (~known /\ dl => errs = maxRetries)
            /\ faults + cost <= MaxFaultyCalls
            /\ faults' = faults + cost
            /\ pairLog' = pairLog \cup {rec}
            /\ last' = rec
            /\ submitted' = IF acked
                            THEN [submitted EXCEPT ![<<pdf.id, clientId>>] = @ + 1]
                            ELSE submitted
            /\ ackedRun' = IF acked THEN ackedRun \cup {<<pdf.id, clientId>>} ELSE ackedRun
            /\ name' = IF acked /\ rn
                       THEN [name EXCEPT ![pdf.id] = UploadedName(pdf.name)] ELSE name
            /\ successfulUploads' =
                  IF acked /\ rn
                  THEN Append(successfulUploads, SuccessRec(folder, pdf.id, None, clientId))
                  ELSE successfulUploads
            /\ failures' =
                  IF acked /\ rn THEN failures
                  ELSE Append(failures,
                              FailureRec(folder, pdf.id, None, clientId, "upload_to_sisu"))
            /\ IF pi < Len(pdfs)
               THEN pi' = pi + 1 /\ UNCHANGED <<pc, fi>>
               ELSE IbNextFolder
    /\ UNCHANGED <<envVars, auditVars, dvars, marker, mode, run, request, clientFolders,
                   matchedFolder, emailToFoldersMap, ei, gi, ti, attempt, transactions, pdfs,
                   skipped, multiTransactionFlags, response, inFault, waits, answers, lookups,
                   attempted, enumerated, nameAtStart, prevSuccess>>

\* remove-suffix.js 476-496: write the sheets in one try, answer 200
IbLog ==
    /\ mode = "idbatch" /\ pc = "log"
    /\ LET planned == PlannedWrites(failures, skipped, <<>>)
       IN  \E k \in 0..Len(planned) :
              /\ k = 0 \/ faults < MaxFaultyCalls
              /\ faults' = IF k = 0 THEN faults ELSE faults + 1
              /\ sheetLog' = [i \in 1..(IF k = 0 THEN Len(planned) ELSE k) |->
                                 [kind |-> planned[i].kind, rows |-> planned[i].rows,
                                  stage |-> planned[i].stage, ok |-> (i # k)]]
              /\ Respond(200, successfulUploads)
    /\ body' = IdBatchBody(successfulUploads, failures, skipped)
    /\ UNCHANGED <<envVars, readLog, escaped, dvars, storeVars, submitted, mode, request,
                   clientFolders, matchedFolder, emailToFoldersMap,
                   loopVars, transactions, pdfs, resultVars, inFault, waits,
                   answers, lookups, ackedRun, attempted, enumerated, nameAtStart, last, pairLog>>

InitIdBatch ==
    /\ \E top \in [{"F1", "F3"} -> IdContents], nested \in NestedIdContents :
          marker = [f \in Folders |-> IF f = "F2" THEN nested ELSE top[f]]
    /\ sisuConfigured = TRUE
    /\ name = [f \in Files |-> InitialName(f)]
    /\ nameAtStart = [f \in Files |-> InitialName(f)]
    /\ RunIdle /\ UnitsOff
    /\ allFolders = <<>> /\ selectedFolders = <<>> /\ dpc = "off"

NextIdBatch == IbStart \/ IbFolder \/ IbPair \/ IbLog \/ IbFatal

SpecIdBatch == InitIdBatch /\ [][NextIdBatch]_vars


----------------------------------------------------------------------------
(* buildFolderPath alone, on any parent structure of a few folders,       *)
(* cyclic ones included, with a store read that may throw                 *)

MaxNodes == 3

PathNodes == 1..MaxNodes

\* response.data.parents is missing or empty
NoParent == 0

\* Mutant: the walk makes one more round
KeepWalkingOneMore(currentId, depth) == currentId # NoParent /\ depth < maxDepth + 1

\* run-upload.js 353: while (currentId && depth < maxDepth)
KeepWalking(currentId, depth) == currentId # NoParent /\ depth < maxDepth

\* run-upload.js 346-374 on the parent structure parents, where the read
\* number failing throws (0: no read throws); a folder's name is its id
RECURSIVE WalkParents(_, _, _, _, _, _)
WalkParents(parents, failing, currentId, depth, pathSegments, reads) ==
    IF ~KeepWalking(currentId, depth)
    THEN [path |-> pathSegments, reads |-> reads, caught |-> FALSE]
    ELSE IF failing = reads + 1
    THEN [path |-> UnknownPath, reads |-> reads + 1, caught |-> TRUE]
    ELSE LET segs == <<currentId>> \o pathSegments
         IN  IF parents[currentId] # NoParent
             THEN WalkParents(parents, failing, parents[currentId], depth + 1, segs, reads + 1)
             ELSE [path |-> segs, reads |-> reads + 1, caught |-> FALSE]

PInit ==
    /\ CoreOff /\ SheetsOff /\ NamesOff /\ FindOff /\ CacheOff /\ LateOff
    /\ parentOf \in [PathNodes -> PathNodes \cup {NoParent}]
    /\ walkFrom \in PathNodes
    /\ failAt \in 0..(maxDepth + 1)
    /\ walked = <<>>
    /\ wpc = "input"

BuildFolderPath ==
    /\ wpc = "input"
    /\ walked' = WalkParents(parentOf, failAt, walkFrom, 0, <<>>, 0)
    /\ wpc' = "done"
    /\ UNCHANGED <<parentOf, walkFrom, failAt, sheetVars, nameVars, findVars, cacheVars, coreVars>>

PNext == BuildFolderPath

SpecPath == PInit /\ [][PNext]_vars


----------------------------------------------------------------------------
(* findClientFolders alone: the store-wide marker search, followed by one *)
(* folder lookup per marker found, any of which may throw                 *)

\* run-upload.js 290-341: one record per SISU_ID doc whose parent folder's
\* drive.files.get succeeds; the catch of 334-336 only logs
findClientFoldersWith(markers, failed) ==
    LET withMarker == SelectSeq(FolderList, LAMBDA id : markers[id] # NoMarker)
        gotten == SelectSeq(withMarker, LAMBDA id : id \notin failed)
    IN  [i \in DOMAIN gotten |->
            [folderId |-> gotten[i], folderPath |-> buildFolderPath(gotten[i])]]

FInit ==
    /\ HandlersOff /\ SheetsOff /\ NamesOff /\ PathsOff /\ CacheOff /\ LateOff
    /\ marker \in [Folders -> {NoMarker, <<"e1">>, <<"e2">>}]
    /\ failedGets \in SUBSET Folders
    /\ foundFolders = <<>>
    /\ fpc = "input"

FindClientFolders ==
    /\ fpc = "input"
    /\ foundFolders' = findClientFoldersWith(marker, failedGets)
    /\ fpc' = "done"
    /\ UNCHANGED <<failedGets, sheetVars, nameVars, pathVars, cacheVars, coreVars>>

FNext == FindClientFolders

SpecFind == FInit /\ [][FNext]_vars


----------------------------------------------------------------------------
(* The lookup cache (utils/client-cache.js): refreshes, each a sequence   *)
(* of awaited store calls, interleaved with gets                          *)

MaxRefreshes == 2

CacheContents == {NoMarker, <<"e1">>, <<"E2", " ">>, <<" ">>}

\* the keys the map can hold: set() trims and lower-cases
CacheKeys == {<<"e1">>, <<"e2">>}

\* what callers pass to get()
GetRequests == {<<"e1">>, <<" ", "E2">>}

\* new Map(), and this.cache.clear()
EmptyMap == [k \in CacheKeys |-> None]

\* client-cache.js 103: this.cache.clear()
ClearedMap(current) == EmptyMap

CInit ==
    /\ HandlersOff /\ SheetsOff /\ NamesOff /\ PathsOff /\ FindOff /\ LateOff
    /\ marker \in [Folders -> CacheContents]
    /\ cache = EmptyMap /\ preCache = EmptyMap
    /\ rpc = "idle" /\ ri = 1 /\ rfolders = <<>>
    /\ gets = {} /\ refreshes = 0

\* client-cache.js 70-100, 166-209: refresh() starts _doRefresh, which awaits
\* _getAllClientFolders; a folder whose lookup throws is left out
RefreshList ==
    /\ rpc = "idle" /\ refreshes < MaxRefreshes
    /\ \E failed \in {{}} \cup {{f} : f \in Folders} :
          LET folders == findClientFoldersWith(marker, failed)
          IN  rfolders' = [i \in DOMAIN folders |-> folders[i].folderId]
    /\ preCache' = cache
    /\ gets' = {}
    /\ refreshes' = refreshes + 1
    /\ rpc' = "listed"
    /\ ri' = 1
    /\ UNCHANGED <<cache, sheetVars, nameVars, pathVars, findVars, coreVars>>

\* client-cache.js 103-117: clear the map in place, start the first read
RefreshClear ==
    /\ rpc = "listed"
    /\ cache' = ClearedMap(cache)
    /\ rpc' = IF Len(rfolders) = 0 THEN "idle" ELSE "reading"
    /\ UNCHANGED <<ri, rfolders, preCache, gets, refreshes,
                   sheetVars, nameVars, pathVars, findVars, coreVars>>

\* client-cache.js 117-135, 215-233: one awaited _readClientEmail returns
\* (or throws, which is counted and logged), then set() on the map
RefreshRead ==
    /\ rpc = "reading"
    /\ \E ok \in BOOLEAN :
          LET email == IF ok THEN Trim(marker[rfolders[ri]]) ELSE <<>>
          IN  cache' = IF email = <<>> THEN cache
                       ELSE [cache EXCEPT ![ToLower(Trim(email))] = rfolders[ri]]
    /\ IF ri < Len(rfolders)
       THEN ri' = ri + 1 /\ rpc' = "reading"
       ELSE ri' = ri /\ rpc' = "idle"
    /\ UNCHANGED <<rfolders, preCache, gets, refreshes,
                   sheetVars, nameVars, pathVars, findVars, coreVars>>

\* client-cache.js 19-23: get(email)
CacheGet ==
    /\ rpc # "off"
    /\ \E email \in GetRequests :
          LET normalizedEmail == ToLower(Trim(email))
          IN  gets' = gets \cup {[key |-> normalizedEmail, result |-> cache[normalizedEmail],
                                  during |-> rpc # "idle"]}
    /\ UNCHANGED <<cache, rpc, ri, rfolders, preCache, refreshes,
                   sheetVars, nameVars, pathVars, findVars, coreVars>>

CNext == RefreshList \/ RefreshClear \/ RefreshRead \/ CacheGet

SpecCache == CInit /\ [][CNext]_vars


----------------------------------------------------------------------------
(* Specification of the deduplication alone on short paths, where every   *)
(* discovery order of the same records can be compared                    *)

MaxPathLen == 2
MaxRecords == 3

ShortPaths == (SeqsUpTo(Segs, MaxPathLen) \ {<<>>}) \cup {UnknownPath}

DInitOrder ==
    /\ \E n \in 0..MaxRecords : \E pathOf \in [1..n -> ShortPaths] :
          allFolders = MkRecords(pathOf)
    /\ selectedFolders = <<>>
    /\ dpc = "input"
    /\ sisuConfigured = TRUE
    /\ marker = [f \in Folders |-> NoMarker]
    /\ name = [f \in Files |-> InitialName(f)]
    /\ nameAtStart = [f \in Files |-> InitialName(f)]
    /\ RunIdle /\ UnitsOff

SpecDedupOrder == DInitOrder /\ [][DNext]_vars


----------------------------------------------------------------------------
(* findClientFolders and deduplicateFoldersByPriority on a deep store: one  *)
(* chain of folders below the drive root, markers in one or two of them,   *)
(* with a store read of buildFolderPath that may throw                     *)

MaxChain == 12

DeepNodes == 1..MaxChain

\* the discovered marker folders, in the order files.list returns them
DeepMarkers ==
    {<<a>> : a \in DeepNodes} \cup {m \in DeepNodes \X DeepNodes : m[1] # m[2]}

\* a is a proper ancestor of d in the store hierarchy parents
RECURSIVE IsAncestor(_, _, _)
IsAncestor(parents, a, d) ==
    /\ parents[d] # NoParent
    /\ (parents[d] = a \/ IsAncestor(parents, a, parents[d]))

DeepInit ==
    /\ CoreOff /\ SheetsOff /\ NamesOff /\ FindOff /\ CacheOff /\ LateOff
    /\ parentOf = [n \in DeepNodes |-> n - 1]
    /\ walkFrom \in DeepMarkers
    /\ failAt \in [DOMAIN walkFrom -> 0..maxDepth]
    /\ walked = <<>>
    /\ wpc = "input"

\* the path of a walk with every folder named by the numeral of its id
NamedPath(w) == IF w.caught THEN UnknownPath ELSE [k \in DOMAIN w.path |-> ToString(w.path[k])]

\* run-upload.js 312-340: one record per marker, its path built by
\* buildFolderPath (346-374)
FindDeep ==
    /\ wpc = "input"
    /\ walked' = [i \in DOMAIN walkFrom |-> WalkParents(parentOf, failAt[i], walkFrom[i], 0, <<>>, 0)]
    /\ allFolders' = [i \in DOMAIN walkFrom |->
                         [folderId |-> walkFrom[i], folderPath |-> NamedPath(walked'[i])]]
    /\ wpc' = "done"
    /\ dpc' = "input"
    /\ UNCHANGED <<selectedFolders, parentOf, walkFrom, failAt,
                   sheetVars, nameVars, findVars, cacheVars,
                   storeVars, runVars, sisuConfigured, auditVars, lateVars>>

DeepNext == FindDeep \/ Deduplicate

SpecDeep == DeepInit /\ [][DeepNext]_vars


----------------------------------------------------------------------------
(* ClientCache.refresh (utils/client-cache.js 73-159) called by requests   *)
(* that overlap: every step runs from one await to the next, as the event  *)
(* loop runs it                                                            *)

MaxCalls == 3

Callers == 1..MaxCalls

\* the store: a marker in F1 or not, one in the nested F2 or not
FlightStore(in1, in2) ==
    [f \in Folders |-> IF f = "F1" /\ in1 THEN <<"e1">>
                       ELSE IF f = "F2" /\ in2 THEN <<"E2", " ">>
                       ELSE NoMarker]

\* the _doRefresh invocations that have not settled
Executing == {id \in DOMAIN flights : flights[id].state \in {"listing", "reading"}}

FlInit ==
    /\ HandlersOff /\ SheetsOff /\ NamesOff /\ PathsOff /\ FindOff /\ UndoOff /\ OverlapOff
    /\ CronOff
    /\ \E in1 \in BOOLEAN, in2 \in BOOLEAN : marker = FlightStore(in1, in2)
    /\ cache = EmptyMap
    /\ rpc = "off" /\ ri = 1 /\ rfolders = <<>> /\ preCache = <<>>
    /\ gets = {} /\ refreshes = 0
    /\ isRefreshing = FALSE /\ refreshPromise = NoPromise /\ lastRefreshTime = NoPromise
    /\ flights = <<>>
    /\ calls = [c \in Callers |-> [pc |-> "idle", promise |-> NoPromise, owner |-> FALSE,
                                   during |-> {}, outcome |-> None]]

\* Mutant: the guard of refresh() never finds a refresh in progress
AlreadyRefreshingNever(flag) == FALSE

\* client-cache.js 75: if (this.isRefreshing)
AlreadyRefreshing(flag) == flag

\* client-cache.js 73-86 up to the await: a caller either waits for the
\* promise of the refresh in progress or starts _doRefresh, which runs up to
\* its first store call (94-100, 166-182)
CallRefresh ==
    \E c \in Callers :
        /\ calls[c].pc = "idle"
        /\ IF AlreadyRefreshing(isRefreshing)
           THEN /\ calls' = [calls EXCEPT ![c] = [@ EXCEPT !.pc = "waiting",
                                                          !.promise = refreshPromise,
                                                          !.during = Executing]]
                /\ UNCHANGED <<isRefreshing, refreshPromise, flights>>
           ELSE /\ isRefreshing' = TRUE
                /\ flights' = Append(flights,
                                  [state |-> "listing", folders |-> <<>>, i |-> 1,
                                   overlaps |-> Executing,
                                   before |-> [cache |-> cache,
                                               lastRefreshTime |-> lastRefreshTime]])
                /\ refreshPromise' = Len(flights')
                /\ calls' = [calls EXCEPT ![c] = [@ EXCEPT !.pc = "waiting",
                                                          !.promise = Len(flights'),
                                                          !.owner = TRUE,
                                                          !.during = Executing]]
        /\ UNCHANGED <<cache, lastRefreshTime>>
        /\ UNCHANGED <<rpc, ri, rfolders, preCache, gets, refreshes,
                       sheetVars, nameVars, pathVars, findVars, handlerVars, lateButFlight>>

\* client-cache.js 85-91: the promise of _doRefresh id settles; the
\* continuations of the callers that await it run in the same turn of the
\* event loop, the finally of the caller that started it included
SettledCalls(id, state) ==
    [c \in Callers |->
        IF calls[c].pc = "waiting" /\ calls[c].promise = id
        THEN [calls[c] EXCEPT !.pc = "returned", !.outcome = [flight |-> id, state |-> state]]
        ELSE calls[c]]

OwnerAwaits(id) == \E c \in Callers : calls[c].pc = "waiting" /\ calls[c].promise = id /\ calls[c].owner

\* Mutant: refresh() without its finally block
SettleWithoutFinally(id, state) ==
    /\ calls' = SettledCalls(id, state)
    /\ UNCHANGED <<isRefreshing, refreshPromise>>

Settle(id, state) ==
    /\ calls' = SettledCalls(id, state)
    /\ IF OwnerAwaits(id)
       THEN isRefreshing' = FALSE /\ refreshPromise' = NoPromise
       ELSE UNCHANGED <<isRefreshing, refreshPromise>>

\* client-cache.js 100-117, 138-158: _getAllClientFolders returns or throws;
\* when it returns, the map is cleared and the first read begins
FlightList ==
    \E id \in DOMAIN flights :
        /\ flights[id].state = "listing"
        /\ \/ /\ flights' = [flights EXCEPT ![id].state = "rejected"]
              /\ Settle(id, "rejected")
              /\ UNCHANGED <<cache, lastRefreshTime>>
           \/ \E failed \in {{}, {"F1"}} :
                 LET found == findClientFoldersWith(marker, failed)
                     folders == [k \in DOMAIN found |-> found[k].folderId]
                 IN  /\ cache' = ClearedMap(cache)
                     /\ IF Len(folders) = 0
                        THEN /\ flights' = [flights EXCEPT ![id].state = "resolved"]
                             /\ lastRefreshTime' = id
                             /\ Settle(id, "resolved")
                        ELSE /\ flights' = [flights EXCEPT ![id].state = "reading",
                                                           ![id].folders = folders]
                             /\ UNCHANGED <<lastRefreshTime, isRefreshing, refreshPromise, calls>>
        /\ UNCHANGED <<rpc, ri, rfolders, preCache, gets, refreshes,
                       sheetVars, nameVars, pathVars, findVars, handlerVars, lateButFlight>>

\* client-cache.js 117-158: one _readClientEmail returns or throws, then
\* set(); after the last folder lastRefreshTime is set and the promise resolves
FlightRead ==
    \E id \in DOMAIN flights :
        /\ flights[id].state = "reading"
        /\ LET folder == flights[id].folders[flights[id].i]
           IN  \E ok \in BOOLEAN :
                  LET email == IF ok THEN Trim(marker[folder]) ELSE <<>>
                  IN  cache' = IF email = <<>> THEN cache
                               ELSE [cache EXCEPT ![ToLower(Trim(email))] = folder]
        /\ IF flights[id].i < Len(flights[id].folders)
           THEN /\ flights' = [flights EXCEPT ![id].i = @ + 1]
                /\ UNCHANGED <<lastRefreshTime, isRefreshing, refreshPromise, calls>>
           ELSE /\ flights' = [flights EXCEPT ![id].state = "resolved"]
                /\ lastRefreshTime' = id
                /\ Settle(id, "resolved")
        /\ UNCHANGED <<rpc, ri, rfolders, preCache, gets, refreshes,
                       sheetVars, nameVars, pathVars, findVars, handlerVars, lateButFlight>>

FlNext == CallRefresh \/ FlightList \/ FlightRead

SpecFlight == FlInit /\ [][FlNext]_vars


----------------------------------------------------------------------------
(* The undo handler by transaction id (remove-suffix.js 122-184), invoked  *)
(* between runs of the batch handler by transaction id                     *)

\* request bodies of the undo handler
UndoRequests == {<<"t3">>, <<" ", "t3">>, <<"t9">>}

\* the Drive query term  name contains '_UPLOADED.pdf'
ContainsUploadedPdf(fileName) ==
    \E k \in 1..(Len(fileName) - 1) : fileName[k] = "_UPLOADED" /\ fileName[k + 1] = ".pdf"

RECURSIVE SearchUploaded(_, _)
RECURSIVE SearchUploadedSubfolders(_, _, _)
SearchUploaded(currentFolderId, names) ==
    LET files == FilesIn(currentFolderId)
        recs == [i \in DOMAIN files |-> [id |-> files[i], name |-> names[files[i]]]]
    IN  SelectSeq(recs, LAMBDA file : ContainsUploadedPdf(file.name))
            \o SearchUploadedSubfolders(SubfoldersOf(currentFolderId), 1, names)
SearchUploadedSubfolders(subfolders, i, names) ==
    IF i > Len(subfolders) THEN <<>>
    ELSE SearchUploaded(subfolders[i], names) \o SearchUploadedSubfolders(subfolders, i + 1, names)

\* the ids of a list of file records
FilesOfUploaded(pdfList) == {pdfList[k].id : k \in DOMAIN pdfList}

\* remove-suffix.js 72-106
findUploadedPDFs(folderId, names) == SearchUploaded(folderId, names)

\* remove-suffix.js 17-52: the SISU_ID docs of the direct subfolders of Under
\* Contract, each given by its folder
findSISUIDFiles(markers) ==
    SelectSeq(SubfoldersOf(UnderContract), LAMBDA id : markers[id] # NoMarker)

\* remove-suffix.js 145-149, 54-70: the marker's trimmed text is the target;
\* readTransactionId returns null when the export throws
IsTargetFolder(readOk, content, targetId) == readOk /\ Trim(content) = targetId

\* remove-suffix.js 144-169: the loop over the SISU_ID docs from the i-th
\* on; in names the store reads and renames that throw
RECURSIVE UndoFolders(_, _, _, _, _)
UndoFolders(sisuIdFiles, i, st, targetId, thrown) ==
    IF i > Len(sisuIdFiles) THEN [st EXCEPT !.status = 200]
    ELSE LET folderId == sisuIdFiles[i]
         IN  IF ~IsTargetFolder(folderId \notin thrown.reads, marker[folderId], targetId)
             THEN UndoFolders(sisuIdFiles, i + 1, st, targetId, thrown)
             ELSE IF folderId \in thrown.lists THEN [st EXCEPT !.status = 500]
             ELSE LET uploadedPdfs == FilesOfUploaded(findUploadedPDFs(folderId, st.names))
                      renamed == uploadedPdfs \ thrown.renames
                  IN  UndoFolders(sisuIdFiles, i + 1,
                          [st EXCEPT !.names = [f \in Files |->
                                                   IF f \in renamed
                                                   THEN removeUploadedSuffix(st.names[f])
                                                   ELSE st.names[f]],
                                     !.foldersProcessed = @ + 1,
                                     !.filesRenamed = @ + Cardinality(renamed),
                                     !.renameErrors = @ \cup (uploadedPdfs \cap thrown.renames)],
                          targetId, thrown)

\* remove-suffix.js 122-184, the whole invocation
UndoById ==
    /\ pc = "idle" /\ undone = NoUndo
    /\ \E transactionId \in UndoRequests,
          reads \in SUBSET {"F1", "F3"}, lists \in SUBSET {"F1", "F3"},
          renames \in SUBSET Files, search \in BOOLEAN :
        LET targetId == Trim(transactionId)
            thrown == [reads |-> reads, lists |-> lists, renames |-> renames]
            sisuIdFiles == findSISUIDFiles(marker)
            st0 == [names |-> name, status |-> 0, foldersProcessed |-> 0, filesRenamed |-> 0,
                    renameErrors |-> {}]
            st == IF search THEN [st0 EXCEPT !.status = 500]
                  ELSE UndoFolders(sisuIdFiles, 1, st0, targetId, thrown)
            cost == Cardinality(reads) + Cardinality(lists) + Cardinality(renames)
                    + (IF search THEN 1 ELSE 0)
        IN  /\ faults + cost <= MaxFaultyCalls
            /\ search => (reads = {} /\ lists = {} /\ renames = {})
            /\ \A f \in reads : \E k \in DOMAIN sisuIdFiles : sisuIdFiles[k] = f
            /\ Cardinality(lists) <= 1
            /\ lists # {} => st.status = 500
            /\ renames \subseteq st.renameErrors
            /\ faults' = faults + cost
            /\ name' = st.names
            /\ undone' = [status |-> st.status, transactionId |-> targetId,
                          foldersProcessed |-> st.foldersProcessed,
                          filesRenamed |-> st.filesRenamed,
                          renameErrors |-> st.renameErrors, readErrors |-> reads,
                          namesBefore |-> name, atRun |-> run, faultsAfter |-> faults']
    /\ UNCHANGED <<unitVars, lateButUndo, sisuConfigured, auditVars, dvars, marker, submitted,
                   mode, pc, run, request, clientFolders, matchedFolder, emailToFoldersMap,
                   loopVars, transactions, pdfs, resultVars, response, inFault, histVars>>

NextUndo == NextIdBatch \/ UndoById

SpecUndo == InitIdBatch /\ [][NextUndo]_vars


----------------------------------------------------------------------------
(* Invocations of the batch handler (run-upload.js; cron/upload.js calls   *)
(* the same handler) that overlap in time on one store, every call         *)
(* succeeding; each step runs from one store or registry write to the next *)

MaxJobs == 2

Jobs == 1..MaxJobs

\* run-upload.js 52-84: the email -> folders map of the selected folders
RECURSIVE ReadEmails(_, _, _)
ReadEmails(folders, i, map) ==
    IF i > Len(folders) THEN map
    ELSE LET clientEmail == Trim(marker[folders[i].folderId])
         IN  ReadEmails(folders, i + 1,
                        IF IsEmptyMarker(clientEmail) THEN map
                        ELSE MapPush(map, clientEmail, folders[i]))

\* run-upload.js 130-147: the (folder, transaction) iterations of one email,
\* transaction by transaction, folder by folder
Iterations(folders, txns) ==
    [k \in 1..(Len(folders) * Len(txns)) |->
        [folderId |-> folders[((k - 1) % Len(folders)) + 1].folderId,
         clientId |-> txns[((k - 1) \div Len(folders)) + 1].client_id]]

\* run-upload.js 87-147: the iterations of every email that resolves, in map order
RECURSIVE WorkOf(_, _)
WorkOf(map, e) ==
    IF e > Len(map) THEN <<>>
    ELSE LET result == LookupResult(RegistryAnswer(map[e].email))
         IN  (IF result.found THEN Iterations(map[e].folders, result.transactions) ELSE <<>>)
                 \o WorkOf(map, e + 1)

IdleJob == [pc |-> "idle", work |-> <<>>, wi |-> 1, pdfs |-> <<>>, pi |-> 1, acked |-> {},
            overlapped |-> FALSE]

OInit ==
    /\ HandlersOff /\ SheetsOff /\ NamesOff /\ PathsOff /\ FindOff /\ CacheOff
    /\ FlightOff /\ UndoOff /\ CronOff
    /\ \E in2 \in BOOLEAN, in3 \in BOOLEAN :
          marker = [f \in Folders |-> IF f = "F1" THEN <<"e1">>
                                      ELSE IF f = "F2" /\ in2 THEN <<"e2", " ">>
                                      ELSE IF f = "F3" /\ in3 THEN <<"e2", " ">>
                                      ELSE NoMarker]
    /\ jobs = [j \in Jobs |-> IdleJob]

OthersUnchanged ==
    UNCHANGED <<unitVars, lateButOverlap, sisuConfigured, auditVars, dvars, marker, runVars>>

\* the for loops move on: the next (folder, transaction) iteration, or the end
NextIteration(job) ==
    IF job.wi < Len(job.work)
    THEN [job EXCEPT !.wi = @ + 1, !.pc = "enumerate", !.pdfs = <<>>, !.pi = 1]
    ELSE [job EXCEPT !.pc = "done", !.pdfs = <<>>, !.pi = 1]

NextFile(job) ==
    IF job.pi < Len(job.pdfs) THEN [job EXCEPT !.pi = @ + 1, !.pc = "upload"]
    ELSE NextIteration(job)

\* run-upload.js 16-128: an invocation begins while others may be running; it
\* finds, selects and resolves the folders, which writes nothing
JobStart ==
    \E j \in Jobs :
        /\ jobs[j].pc = "idle"
        /\ LET selected == deduplicateFoldersByPriority(findClientFolders(marker))
               work == WorkOf(ReadEmails(selected, 1, <<>>), 1)
               running == {o \in Jobs : jobs[o].pc \notin {"idle", "done"}}
           IN  jobs' = [o \in Jobs |->
                           IF o = j
                           THEN [jobs[j] EXCEPT !.work = work,
                                                !.pc = IF Len(work) = 0 THEN "done" ELSE "enumerate",
                                                !.overlapped = running # {}]
                           ELSE IF o \in running THEN [jobs[o] EXCEPT !.overlapped = TRUE]
                           ELSE jobs[o]]
        /\ UNCHANGED name
        /\ OthersUnchanged

\* run-upload.js 147-150: findNewPDFs for the iteration
JobEnumerate ==
    \E j \in Jobs :
        /\ jobs[j].pc = "enumerate"
        /\ LET found == findNewPDFs(jobs[j].work[jobs[j].wi].folderId, name)
           IN  jobs' = [jobs EXCEPT ![j] =
                           IF Len(found) = 0 THEN NextIteration(@)
                           ELSE [@ EXCEPT !.pdfs = found, !.pi = 1, !.pc = "upload"]]
        /\ UNCHANGED name
        /\ OthersUnchanged

\* run-upload.js 153-158: downloadFile and uploadToSISUWithRetry, acknowledged
JobUpload ==
    \E j \in Jobs :
        /\ jobs[j].pc = "upload"
        /\ jobs' = [jobs EXCEPT ![j] =
                       [@ EXCEPT !.acked = @ \cup {<<jobs[j].pdfs[jobs[j].pi].id,
                                                     jobs[j].work[jobs[j].wi].clientId>>},
                                 !.pc = "rename"]]
        /\ UNCHANGED name
        /\ OthersUnchanged

\* run-upload.js 160-172: renameFileAsUploaded with the name the enumeration
\* returned, then the next file
JobRename ==
    \E j \in Jobs :
        /\ jobs[j].pc = "rename"
        /\ name' = [name EXCEPT ![jobs[j].pdfs[jobs[j].pi].id] =
                                    UploadedName(jobs[j].pdfs[jobs[j].pi].name)]
        /\ jobs' = [jobs EXCEPT ![j] = NextFile(@)]
        /\ OthersUnchanged

ONext == JobStart \/ JobEnumerate \/ JobUpload \/ JobRename

SpecOverlap == OInit /\ [][ONext]_vars


----------------------------------------------------------------------------
(* The cron upload endpoint (pages/api/cron/upload.js) *)

\* strings are sequences of tokens
VercelCron == <<"vercel", "-", "cron">>
Bearer == <<"Bearer", " ">>

\* process.env.CRON_SECRET: not set, set to the empty string, set to s1
Secrets == {Unset, Str(<<>>), Str(<<"s1">>)}

\* the user-agent headers a request may carry
UserAgents == {Unset, Str(<<"curl">>), Str(<<"vercel", "cron">>),
               Str(<<"vercel", "-", "cron", "/1.0">>)}

\* the Authorization headers a request may carry
AuthHeaders == {Unset, Str(<<"s1">>), Str(<<"Bearer", " ">>),
                Str(<<"Bearer", " ", "s1">>), Str(<<"Bearer", " ", "s2">>)}

\* String.prototype.includes
Includes(s, sub) ==
    \E i \in 0..(Len(s) - Len(sub)) : SubSeq(s, i + 1, i + Len(sub)) = sub

\* a set, non-empty string is truthy
Truthy(v) == v.set /\ v.value # <<>>

\* cron/upload.js 11: req.headers['user-agent']?.includes('vercel-cron')
isVercelCron(userAgent) == userAgent.set /\ Includes(userAgent.value, VercelCron)

hasValidSecretWhenUnset(secret, authHeader) ==
    authHeader.set /\ authHeader.value = Bearer \o secret.value

\* cron/upload.js 12: cronSecret && authHeader === `Bearer ${cronSecret}`
hasValidSecret(secret, authHeader) ==
    Truthy(secret) /\ authHeader.set /\ authHeader.value = Bearer \o secret.value

InitCron ==
    /\ HandlersOff /\ SheetsOff /\ NamesOff /\ PathsOff /\ FindOff /\ CacheOff
    /\ FlightOff /\ UndoOff /\ OverlapOff
    /\ \E in1 \in BOOLEAN :
          marker = [f \in Folders |-> IF f = "F1" /\ in1 THEN <<"e1">> ELSE NoMarker]
    /\ \E secret \in Secrets : cronSecret = secret
    /\ cron = CronIdle

\* cron/upload.js 5-55: a request arrives; it is answered 401, or the upload
\* handler is called and runs up to its first await
CronRequest ==
    /\ cron.pc # "running" /\ pc = "idle" /\ run < MaxRuns
    /\ \E userAgent \in UserAgents, authHeader \in AuthHeaders :
          IF ~isVercelCron(userAgent) /\ ~hasValidSecret(cronSecret, authHeader)
          THEN /\ cron' = [pc |-> "done", userAgent |-> userAgent,
                           authorization |-> authHeader, status |-> 401]
               /\ UNCHANGED <<handlerVars, unitVars, lateButCron>>
          ELSE /\ cron' = [pc |-> "running", userAgent |-> userAgent,
                           authorization |-> authHeader, status |-> 0]
               /\ StartBatchCall
    /\ UNCHANGED cronSecret

\* cron/upload.js 55-67: the upload handler returned; what it sent to the
\* mock response decides the answer
CronFinish ==
    /\ cron.pc = "running" /\ pc = "idle"
    /\ cron' = [cron EXCEPT !.pc = "done",
                            !.status = IF response = 200 THEN 200 ELSE 500]
    /\ UNCHANGED <<handlerVars, unitVars, lateButCron, cronSecret>>

NextCron == CronRequest \/ CronFinish \/ HandlerStep

SpecCron == InitCron /\ [][NextCron]_vars


Range(s) == {s[i] : i \in DOMAIN s}

\* C3: after deduplication, no record whose folderPath has another discovered
\* record's folderPath as a proper prefix at a ' > ' boundary is in the result.
C3_NoDescendantSelected ==
    dpc = "done" =>
        \A x \in Range(allFolders), y \in Range(allFolders) :
            StartsWithSep(y.folderPath, x.folderPath) => y \notin Range(selectedFolders)

\* C3 witness: a three-level chain was discovered deepest first and only its
\* shallowest record was selected.
C3_Witness ==
    /\ dpc = "done"
    /\ Len(allFolders) = 3
    /\ StartsWithSep(allFolders[1].folderPath, allFolders[2].folderPath)
    /\ StartsWithSep(allFolders[2].folderPath, allFolders[3].folderPath)
    /\ selectedFolders = <<allFolders[3]>>

----------------------------------------------------------------------------
(* Properties of the run model *)

SeqCount(seq, Test(_)) == Cardinality({i \in DOMAIN seq : Test(seq[i])})

FilesOf(pdfList) == {pdfList[i].id : i \in DOMAIN pdfList}

\* the transactions the resolver returns for an email in batch mode
ResolvedBatch(email) == LookupResult(RegistryAnswer(email)).transactions

\* a later invocation than the first is running or has finished
LaterRun == (run >= 1 /\ pc # "idle") \/ run >= 2

\* C1 (as claimed): across sequential runBatch invocations without undo, with
\* failing store calls allowed, no file is successfully submitted to the same
\* transaction more than once.
C1_AtMostOneSubmission ==
    \A p \in Pairs : submitted[p] <= 1

C4_FanOutToBoth ==
    (mode = "batch" /\ pc = "log" /\ faults = 0) =>
        \A r \in lookups :
            (r.found /\ r.count = 2) =>
                \A i \in DOMAIN r.folders :
                    LET eligible == findNewPDFs(r.folders[i].folderId, nameAtStart)
                        txns == ResolvedBatch(r.email)
                    IN  Len(eligible) = 1 =>
                            \A j \in DOMAIN txns :
                                /\ attempted[<<eligible[1].id, txns[j].client_id>>] = 1
                                /\ submitted[<<eligible[1].id, txns[j].client_id>>] = 1

\* C5: in runBatch a multi-transaction flag exists for an identifier exactly
\* when its resolution returned more than one transaction; there is one flag
\* per identifier, whatever the number of its folders, and its
\* transactionCount is the number of transactions the resolver returned.
C5_FlagPerIdentifier ==
    mode = "batch" =>
        /\ \A i \in DOMAIN multiTransactionFlags :
              \E r \in lookups :
                  /\ r.email = multiTransactionFlags[i].email
                  /\ r.count > 1
                  /\ multiTransactionFlags[i].transactionCount = r.count
                  /\ r.count = Len(ResolvedBatch(r.email))
        /\ \A r \in lookups :
              SeqCount(multiTransactionFlags, LAMBDA fl : fl.email = r.email)
                  = IF r.count > 1 THEN 1 ELSE 0
        /\ \A r1 \in lookups, r2 \in lookups : r1.email = r2.email => r1 = r2

\* C5 witness: the run ended with one flag of count 2 for an identifier that
\* two folders carry.
C5_Witness ==
    /\ mode = "batch" /\ pc = "log"
    /\ Len(multiTransactionFlags) = 1
    /\ multiTransactionFlags[1].transactionCount = 2
    /\ Len(multiTransactionFlags[1].folders) = 2

\* C6: in every run mode, a file whose name differs from its name at the
\* start of the run had a submission acknowledged by the registry earlier in
\* that run; a file without an acknowledged submission in the run (download
\* failed, every submission failed) keeps its name.
C6_RenameOnlyAfterAck ==
    \A f \in Files :
        name[f] # nameAtStart[f] => \E t \in Txns : <<f, t>> \in ackedRun

\* C6 witness: the single-client handler has marked a file after submitting
\* it to two transactions, one of which followed a failed download.
C6_Witness ==
    /\ mode = "email" /\ pc = "log"
    /\ \E f \in Files :
          /\ name[f] # nameAtStart[f]
          /\ \E t \in Txns : <<f, t>> \in ackedRun
          /\ \E rec \in pairLog : rec.file = f /\ rec.download = "err"

\* C6 witness in the single-transaction handler: a file was marked after its
\* acknowledged submission while another's submission failed and it kept its name.
C6_WitnessId ==
    /\ mode = "id" /\ pc = "log"
    /\ \E f \in Files, g \in Files :
          /\ name[f] # nameAtStart[f]
          /\ \E rec \in pairLog : rec.file = g /\ rec.outcome = "failure"
          /\ name[g] = nameAtStart[g]

\* the last finished pair was retried as described: two failed attempts,
\* then the given third answer
RetriedTwice(rec, third) ==
    /\ rec.download = "ok"
    /\ rec.answers = <<"err", "err", third>>

PairIs(entry, rec) == entry.fileId = rec.file /\ entry.sisuClientId = rec.txn

C7_WitnessLookup ==
    /\ mode = "batch" /\ pc = "log"
    /\ \E r \in lookups : r.answers = <<"err", "err", "200">> /\ r.found
    /\ successfulUploads # <<>>

\* C8: uploadToSISUWithRetry makes at most 3 attempts for a pair, waits
\* 1 s after the first failed attempt and 2 s after the second and does not
\* wait after the third; when all three fail the pair has exactly one
\* failure entry (stage upload_to_sisu), no success entry, and the file keeps
\* its name.
C8_RetryBudget ==
    mode = "batch" =>
        /\ Len(answers) <= 3 /\ Len(last.answers) <= 3
        /\ \A p \in Pairs : attempted[p] <= 3 * Cardinality({e \in enumerated : e.txn = p[2]})
        /\ pc \in {"upload", "uploadWait"} =>
              /\ \A i \in DOMAIN answers : answers[i] = "err"
              /\ waits = [i \in 1..(attempt - 1) |-> i]
              /\ Len(answers) = IF pc = "upload" THEN attempt - 1 ELSE attempt
        /\ last.answers = <<"err", "err", "err">> =>
              /\ last.waits = <<1, 2>>
              /\ last.outcome = "failure"
              /\ SeqCount(failures, LAMBDA e : PairIs(e, last) /\ e.folderId = last.folder) = 1
              /\ \A i \in DOMAIN failures :
                    (PairIs(failures[i], last) /\ failures[i].folderId = last.folder)
                        => failures[i].stage = "upload_to_sisu"
              /\ SeqCount(successfulUploads,
                          LAMBDA e : e.driveFileId = last.file /\ e.sisuClientId = last.txn) = 0
              /\ name[last.file] = nameAtStart[last.file]
              /\ ~EndsWithUploadedPdf(name[last.file])

\* C8 witness: a pair has just exhausted its three attempts.
C8_Witness ==
    /\ mode = "batch"
    /\ last.answers = <<"err", "err", "err">>
    /\ last.waits = <<1, 2>>
    /\ Len(failures) = 1

\* the files beneath a folder, marked or not
FilesUnder(folderId) == FilesOf(findNewPDFs(folderId, [x \in Files |-> InitialName(x)]))

\* the pair's own calls all succeeded
OwnCallsOk(rec) ==
    /\ rec.download = "ok"
    /\ rec.answers # <<>> /\ rec.answers[Len(rec.answers)] = "ack"
    /\ rec.rename = "ok"

\* C9: in runBatch a failed (file, transaction) pair does not abort the run.
\* When the run ends every identifier was looked up, every folder of a found
\* identifier was enumerated for each of its transactions, every file an
\* enumeration returned was processed, every file that was eligible when the
\* run began and gained no success was returned by each enumeration of its
\* folder, and each pair's outcome is decided by its own download, submission
\* and rename alone.
C9_FailureIsolation ==
    (mode = "batch" /\ pc = "log") =>
        /\ \A i \in DOMAIN emailToFoldersMap :
              \E r \in lookups : r.email = emailToFoldersMap[i].email
                                 /\ r.folders = emailToFoldersMap[i].folders
        /\ \A r \in lookups :
              r.found =>
                  \A i \in DOMAIN r.folders, j \in DOMAIN ResolvedBatch(r.email) :
                      \E e \in enumerated :
                          /\ e.folder = r.folders[i].folderId
                          /\ e.txn = ResolvedBatch(r.email)[j].client_id
        /\ \A e \in enumerated :
              /\ \A f \in FilesOf(e.files) :
                    \E rec \in pairLog :
                        rec.file = f /\ rec.txn = e.txn /\ rec.folder = e.folder
              /\ e.ok =>
                    \A f \in FilesUnder(e.folder) :
                        (IsNewPdf(nameAtStart[f])
                            /\ \A rec \in pairLog : rec.file = f => rec.outcome # "success")
                          => f \in FilesOf(e.files)
        /\ \A rec \in pairLog :
              /\ rec.outcome = "success" <=> OwnCallsOk(rec)
              /\ rec.outcome = "failure" <=> ~OwnCallsOk(rec)
              /\ SeqCount(successfulUploads,
                          LAMBDA e : e.driveFileId = rec.file /\ e.sisuClientId = rec.txn
                                     /\ e.folderId = rec.folder)
                    = IF rec.outcome = "success" THEN 1 ELSE 0
              /\ SeqCount(failures,
                          LAMBDA e : PairIs(e, rec) /\ e.folderId = rec.folder)
                    = IF rec.outcome = "failure" THEN 1 ELSE 0

\* C9 witness: the run ended after the first file of a folder failed, the
\* second file of that folder succeeded and a file of another folder, under
\* another identifier, succeeded too.
C9_Witness ==
    /\ mode = "batch" /\ pc = "log"
    /\ \E r1 \in pairLog, r2 \in pairLog, r3 \in pairLog :
          /\ r1.file = "f1" /\ r1.folder = "F1" /\ r1.outcome = "failure"
          /\ r2.file = "f2" /\ r2.folder = "F1" /\ r2.outcome = "success"
          /\ r3.file = "f3" /\ r3.folder = "F3" /\ r3.outcome = "success"
          /\ r3.txn # r2.txn

\* C10: a 404 answer ends findSISUClientWithRetry at once: no attempt and no
\* backoff wait follows it, so a lookup answered 404 at first is one attempt;
\* runBatch then records one Skipped entry for each folder of the identifier,
\* no Failure entry, and neither enumerates nor submits anything for it.
C10_NotFoundNoRetry ==
    mode = "batch" =>
        /\ \A i \in DOMAIN answers : pc \in {"lookup", "lookupWait"} => answers[i] # "404"
        /\ \A r \in lookups :
              /\ \A i \in DOMAIN r.answers : r.answers[i] = "404" => i = Len(r.answers)
              /\ (r.answers # <<>> /\ r.answers[1] = "404") =>
                    /\ r.answers = <<"404">>
                    /\ r.waits = <<>>
                    /\ ~r.found
                    /\ \A i \in DOMAIN r.folders :
                          /\ SeqCount(skipped,
                                LAMBDA e : /\ e.folderId = r.folders[i].folderId
                                           /\ e.email = r.email
                                           /\ e.details = "Email not found in SISU") = 1
                          /\ SeqCount(skipped,
                                LAMBDA e : e.folderId = r.folders[i].folderId) = 1
                          /\ SeqCount(failures,
                                LAMBDA e : e.folderId = r.folders[i].folderId
                                           \/ e.clientEmail = r.email) = 0
                          /\ \A e \in enumerated : e.folder # r.folders[i].folderId
                          /\ \A f \in FilesUnder(r.folders[i].folderId), t \in Txns :
                                attempted[<<f, t>>] = 0

\* C10 witness: the run ended after an identifier carried by two folders was
\* answered 404 on the first attempt, and both folders were skipped.
C10_Witness ==
    /\ mode = "batch" /\ pc = "log"
    /\ \E r \in lookups :
          /\ r.answers = <<"404">>
          /\ Len(r.folders) = 2
          /\ Len(skipped) = 2
          /\ failures = <<>>

\* C11 (as claimed): an identifier whose lookup failed transiently on all
\* three attempts has a failures entry for each of its folders and no
\* skipped entry.
C11_ExhaustedLookupIsFailure ==
    mode = "batch" =>
        \A r \in lookups :
            r.answers = <<"err", "err", "err">> =>
                \A i \in DOMAIN r.folders :
                    /\ SeqCount(failures,
                                LAMBDA e : e.folderId = r.folders[i].folderId
                                           /\ e.clientEmail = r.email) >= 1
                    /\ SeqCount(skipped,
                                LAMBDA e : e.folderId = r.folders[i].folderId) = 0

\* C12: when a batch run ends, an authoritative folder whose marker is blank
\* after trimming has exactly one skipped entry, with the reason 'SISU_ID
\* file is empty', no failures entry, and was neither part of a registry
\* lookup nor enumerated.
C12_EmptyMarkerSkipped ==
    (mode = "batch" /\ pc = "log") =>
        \A i \in DOMAIN clientFolders :
            LET f == clientFolders[i].folderId
            IN  Trim(marker[f]) = <<>> =>
                    /\ SeqCount(skipped,
                                LAMBDA e : e.folderId = f
                                           /\ e.reason = "SISU_ID file is empty") = 1
                    /\ SeqCount(skipped, LAMBDA e : e.folderId = f) = 1
                    /\ SeqCount(failures, LAMBDA e : e.folderId = f) = 0
                    /\ \A r \in lookups : \A j \in DOMAIN r.folders : r.folders[j].folderId # f
                    /\ \A e \in enumerated : e.folder # f

\* C12 witness: a run ended with the blank-marker folder F1 skipped, its
\* marker read without error, while the folder F3 had its file uploaded.
C12_Witness ==
    /\ mode = "batch" /\ pc = "log"
    /\ [folder |-> "F1", ok |-> TRUE] \in readLog
    /\ Trim(marker["F1"]) = <<>>
    /\ \E i \in DOMAIN skipped : skipped[i].folderId = "F1"
    /\ \E i \in DOMAIN successfulUploads : successfulUploads[i].folderId = "F3"

\* C13 (as claimed): a folder whose marker read failed at the store has a
\* failures entry with the read stage and no 'marker empty' skipped entry.
C13_ReadFailureIsFailure ==
    mode = "batch" =>
        \A x \in readLog :
            ~x.ok =>
                /\ SeqCount(failures,
                            LAMBDA e : e.folderId = x.folder /\ e.stage = "read_email") = 1
                /\ SeqCount(skipped,
                            LAMBDA e : e.folderId = x.folder
                                       /\ e.reason = "SISU_ID file is empty") = 0

\* the discovered folder records the Ownership Resolver discards as nested
NestedDiscards ==
    LET found == findClientFolders(marker)
    IN  {found[j].folderId : j \in {k \in DOMAIN found :
            \E i \in DOMAIN found :
                StartsWithSep(found[k].folderPath, found[i].folderPath)}}

Untouched(folderId) ==
    /\ sisuConfigured
    /\ [folder |-> folderId, ok |-> FALSE] \notin readLog
    /\ \A r \in lookups :
          (\E j \in DOMAIN r.folders : r.folders[j].folderId = folderId) =>
              \A k \in DOMAIN r.answers : r.answers[k] # "err"
    /\ \A e \in enumerated : e.folder = folderId => e.ok
    /\ \A rec \in pairLog : rec.folder = folderId => OwnCallsOk(rec)

\* the (file, transaction) successes a run without failures records for a
\* folder: every file eligible when the run began, each with the first
\* transaction of the folder's identifier
SuccessesWithoutFailure(folderId) ==
    LET email == Trim(marker[folderId])
    IN  IF email = <<>> \/ ResolvedBatch(email) = <<>> THEN {}
        ELSE {<<f, ResolvedBatch(email)[1].client_id>> :
                 f \in FilesOf(findNewPDFs(folderId, nameAtStart))}

SuccessesOf(folderId) ==
    {<<successfulUploads[i].driveFileId, successfulUploads[i].sisuClientId>> :
        i \in {k \in DOMAIN successfulUploads : successfulUploads[k].folderId = folderId}}

\* C15: when a batch run ends, every authoritative folder had its marker
\* read, and a folder for which no call failed has exactly the successes of
\* a run without failures, whatever failed for the other folders.
C15_SiblingIndependence ==
    (mode = "batch" /\ pc = "log") =>
        \A i \in DOMAIN clientFolders :
            LET f == clientFolders[i].folderId
            IN  /\ \E x \in readLog : x.folder = f
                /\ \A j \in DOMAIN clientFolders :
                      j # i => /\ ~StartsWithSep(clientFolders[i].folderPath,
                                                 clientFolders[j].folderPath)
                               /\ clientFolders[i].folderPath # clientFolders[j].folderPath
                /\ Untouched(f) =>
                      /\ SuccessesOf(f) = SuccessesWithoutFailure(f)
                      /\ SeqCount(successfulUploads, LAMBDA e : e.folderId = f)
                            = Cardinality(SuccessesWithoutFailure(f))

\* C15 witness: a run ended in which a call for F3 failed and F3 has no
\* success, while F1, for which nothing failed, has the successes for both
\* files beneath it.
C15_Witness ==
    /\ mode = "batch" /\ pc = "log"
    /\ Len(clientFolders) = 2
    /\ ~Untouched("F3") /\ SuccessesOf("F3") = {}
    /\ Untouched("F1") /\ Cardinality(SuccessesOf("F1")) = 2

\* C16 (as claimed): when a batch run ends, a folder whose enumeration threw
\* has a single failures entry with the stage process_folder, whatever the
\* number of transactions of its identifier, and the folders after it were
\* still processed.
C16_SingleFolderFailure ==
    (mode = "batch" /\ pc = "log") =>
        \A e \in enumerated :
            ~e.ok =>
                /\ SeqCount(failures,
                            LAMBDA x : x.folderId = e.folder /\ x.stage = "process_folder") = 1
                /\ \A r \in lookups :
                      r.found =>
                          \A i \in DOMAIN r.folders, j \in DOMAIN ResolvedBatch(r.email) :
                              \E d \in enumerated :
                                  /\ d.folder = r.folders[i].folderId
                                  /\ d.txn = ResolvedBatch(r.email)[j].client_id

\* a registry record is inactive: its status code (the status where it has no
\* status code) is one of the six inactive ones, or its status is archived
IsInactiveRecord(c) ==
    \/ (IF c.status_code # "" THEN c.status_code ELSE c.status)
          \in {"CLOSD", "LOST", "WITHD", "CANC", "EXPIR", "DEAD"}
    \/ c.status = "A"

\* the registry record of a client id
RegistryRecords ==
    {RegistryAnswer(e).clients[i] :
        e \in {<<"e1">>, <<"e2">>, <<"e4">>},
        i \in 1..2}

\* registry answers of up to two records over every status code and status
StatusSamples ==
    [status_code : {"", "ACTI", "CLOSD", "LOST", "WITHD", "CANC", "EXPIR", "DEAD"},
     status : {"", "A", "LOST"}]

AnswerSamples ==
    {[status |-> 200, clients |-> <<>>]}
    \cup {[status |-> 200,
           clients |-> <<[client_id |-> 1, status_code |-> a.status_code,
                          status |-> a.status, type_id |-> "b"]>>] : a \in StatusSamples}
    \cup {[status |-> 200,
           clients |-> <<[client_id |-> 1, status_code |-> a.status_code,
                          status |-> a.status, type_id |-> "b"],
                         [client_id |-> 2, status_code |-> b.status_code,
                          status |-> b.status, type_id |-> "s"]>>] :
             a \in StatusSamples, b \in StatusSamples}

\* C17: in batch mode the transactions findSISUClientWithRetry returns hold
\* no inactive record, no submission goes to an inactive transaction, and an
\* identifier whose records are all inactive is not found: its folders are
\* skipped, not enumerated, and nothing is submitted for it.
C17_InactiveFiltered ==
    /\ (pc = "idle" /\ run = 0) =>
          \A answer \in AnswerSamples :
              LET result == LookupResult(answer)
              IN  /\ \A i \in DOMAIN result.transactions :
                        ~IsInactiveRecord(answer.clients[result.transactions[i].client_id])
                  /\ Len(result.transactions)
                        = Cardinality({k \in DOMAIN answer.clients :
                                          ~IsInactiveRecord(answer.clients[k])})
                  /\ result.found <=> \E k \in DOMAIN answer.clients :
                                          ~IsInactiveRecord(answer.clients[k])
    /\ mode = "batch" =>
          /\ \A i \in DOMAIN transactions :
                \A c \in RegistryRecords :
                    c.client_id = transactions[i].client_id => ~IsInactiveRecord(c)
          /\ \A p \in Pairs :
                attempted[p] > 0 =>
                    \A c \in RegistryRecords : c.client_id = p[2] => ~IsInactiveRecord(c)
          /\ \A r \in lookups :
                LET clients == RegistryAnswer(r.email).clients
                IN  (/\ r.answers # <<>>
                     /\ r.answers[Len(r.answers)] = "200"
                     /\ \A k \in DOMAIN clients : IsInactiveRecord(clients[k])) =>
                        /\ ~r.found
                        /\ \A i \in DOMAIN r.folders :
                              /\ SeqCount(skipped,
                                          LAMBDA e : e.folderId = r.folders[i].folderId) = 1
                              /\ \A e \in enumerated : e.folder # r.folders[i].folderId
                        /\ \A k \in DOMAIN clients, f \in Files :
                              attempted[<<f, clients[k].client_id>>] = 0

\* C17 witness: a run ended in which the identifier with only inactive
\* records was not found, and the identifier with one active and one closed
\* record had its file submitted to the active one alone.
C17_Witness ==
    /\ mode = "batch" /\ pc = "log"
    /\ \E r \in lookups : r.email = <<"e4">> /\ r.answers = <<"200">> /\ ~r.found
    /\ \E r \in lookups : r.email = <<"e2">> /\ r.found /\ r.count = 1
    /\ \E f \in Files : attempted[<<f, "t3">>] = 1 /\ attempted[<<f, "t4">>] = 0

\* a batch invocation has just finished
BatchDone == mode = "batch" /\ pc = "idle" /\ run >= 1

HasField(rec, field) == field \in DOMAIN rec

C18_WitnessFatal == BatchDone /\ escaped = "search" /\ response = 500

\* C19: the step that writes the Audit Log and answers leaves the four lists
\* as they were and answers 200 with exactly them, whether or not a sheet
\* write fails.
C19_LogFailureIgnored ==
    [][(mode = "batch" /\ pc = "log") =>
          /\ resultVars' = resultVars
          /\ response' = 200
          /\ body' = [status |-> 200, message |-> "Upload process completed",
                      summary |-> [totalSuccessful |-> Len(successfulUploads),
                                   totalFailed |-> Len(failures),
                                   totalSkipped |-> Len(skipped),
                                   multiTransactionCount |-> Len(multiTransactionFlags)],
                      successfulUploads |-> successfulUploads, failures |-> failures,
                      skipped |-> skipped,
                      multiTransactionFlags |-> multiTransactionFlags]]_vars

\* C19 witness: a run answered 200 although its second sheet write failed.
C19_Witness ==
    /\ BatchDone /\ response = 200
    /\ Len(sheetLog) = 2 /\ sheetLog[1].ok /\ ~sheetLog[2].ok
    /\ body.failures # <<>> /\ body.skipped # <<>>

C21_AutoCreatedWithHeader ==
    (lastAppend.dest # None /\ lastAppend.fault = "none") =>
        /\ lastAppend.ok
        /\ lastAppend.dest \in book.tabs
        /\ lastAppend.dest \in book.header

\* C21 for the two destinations that are tabs added on demand
C21_TabsAutoCreated ==
    (lastAppend.dest \in {"Skipped", "Multi-Transaction Flags"}
        /\ lastAppend.fault = "none" /\ sheetFaults = 0) =>
        /\ lastAppend.ok
        /\ lastAppend.dest \in book.tabs
        /\ lastAppend.dest \in book.header


\* name.ext -> name_UPLOADED.ext, for a name with an extension
MarkedExactly(n) ==
    IF n[Len(n)] \in {".pdf", ".PDF"}
    THEN SubSeq(n, 1, Len(n) - 1) \o <<"_UPLOADED", n[Len(n)]>>
    ELSE n \o <<"_UPLOADED">>

\* C22: for every eligible file name n, mark(n) is name_UPLOADED.ext and is
\* not eligible, and undo(mark(n)) is n and is eligible again.
C22_UndoInvertsMark ==
    /\ npc = "marked" => curName = MarkedExactly(origName) /\ ~IsNewPdf(curName)
    /\ npc = "undone" => curName = origName /\ IsNewPdf(curName)

\* C22 for the names that end with the lower-case extension and carry no
\* _UPLOADED before it
C22_UndoInvertsMarkLowerCase ==
    (origName[Len(origName)] = ".pdf"
        /\ (Len(origName) >= 2 => origName[Len(origName) - 1] \notin {"_UPLOADED", "_uploaded"})) =>
        /\ npc = "marked" => curName = MarkedExactly(origName) /\ ~IsNewPdf(curName)
        /\ npc = "undone" => curName = origName /\ IsNewPdf(curName)


\* the identifier a marker content stands for: trimmed and lower-cased
Normalized(content) == ToLower(Trim(content))

\* C23: in the batch run the identifier that groups folders and queries the
\* registry is the marker content trimmed and lower-cased: every group key
\* and every queried email is normalized, and no two groups or lookups stand
\* for the same identifier.
C23_NormalizedIdentifier ==
    mode = "batch" =>
        /\ \A i \in DOMAIN emailToFoldersMap :
              emailToFoldersMap[i].email = Normalized(emailToFoldersMap[i].email)
        /\ \A i, j \in DOMAIN emailToFoldersMap :
              i # j => Normalized(emailToFoldersMap[i].email) # Normalized(emailToFoldersMap[j].email)
        /\ \A r \in lookups : r.email = Normalized(r.email)
        /\ \A r, q \in lookups : r # q => Normalized(r.email) # Normalized(q.email)

\* C23 for white space alone: contents that differ only in surrounding white
\* space form one group and cause one lookup.
C23_TrimmedIdentifier ==
    mode = "batch" =>
        /\ \A i \in DOMAIN emailToFoldersMap :
              emailToFoldersMap[i].email = Trim(emailToFoldersMap[i].email)
        /\ \A i, j \in DOMAIN emailToFoldersMap :
              i # j => emailToFoldersMap[i].email # emailToFoldersMap[j].email
        /\ \A r \in lookups : r.email = Trim(r.email)


\* C24: in the by-ID batch run every submission goes to a transaction that a
\* registry lookup of the same invocation found, and for an identifier the
\* registry does not know no file is enumerated, downloaded, submitted or
\* renamed.
C24_SubmissionVerified ==
    mode = "idbatch" =>
        /\ \A rec \in pairLog :
              rec.answers # <<>> => \E r \in lookups : r.found /\ r.email = rec.txn
        /\ \A rec \in pairLog : RegistryKnowsId(rec.txn)
        /\ \A e \in enumerated : RegistryKnowsId(e.txn)

\* C24 for the single-transaction handler: files are processed only for an
\* identifier the registry knows, and an unknown one ends the invocation with
\* 404 before any folder is read.
C24_SingleHandlerVerified ==
    mode = "id" =>
        /\ \A rec \in pairLog : RegistryKnowsId(rec.txn)
        /\ ~RegistryKnowsId(ParseInt(Trim(request))) =>
              /\ pc = "idle" /\ response = 404
              /\ pairLog = {} /\ enumerated = {} /\ name = nameAtStart

\* C25: in the by-ID batch run a folder whose marker, trimmed, is empty or
\* has no leading number yields exactly one Skipped entry, no Failure entry
\* and no enumeration, download, submission or rename of its own.
C25_AbsentIdSkipped ==
    (mode = "idbatch" /\ pc = "idle" /\ run >= 1 /\ escaped = None) =>
        \A i \in DOMAIN clientFolders :
            LET folderId == clientFolders[i].folderId
                content == Trim(marker[folderId])
            IN  ([folder |-> folderId, ok |-> TRUE] \in readLog
                    /\ (content = <<>> \/ ParseInt(content) = "NaN")) =>
                    /\ SeqCount(skipped, LAMBDA s : s.folderId = folderId) = 1
                    /\ \A k \in DOMAIN failures : failures[k].folderId # folderId
                    /\ \A e \in enumerated : e.folder # folderId
                    /\ \A rec \in pairLog : rec.folder # folderId
                    /\ \A f \in FilesUnder(folderId) : name[f] = nameAtStart[f]

\* C25 witness: a finished run skipped one folder for a blank marker and
\* another for a marker that is no number, and neither was enumerated.
C25_Witness ==
    /\ mode = "idbatch" /\ pc = "idle" /\ run >= 1 /\ escaped = None
    /\ [folder |-> "F1", ok |-> TRUE] \in readLog
    /\ [folder |-> "F3", ok |-> TRUE] \in readLog
    /\ Trim(marker["F1"]) = <<>>
    /\ marker["F3"] = <<"x">>
    /\ Len(skipped) = 2
    /\ skipped[1].reason = "SISU_ID file is empty"
    /\ skipped[2].reason = "Invalid transaction ID"


C27_BoundedWalk ==
    wpc = "done" =>
        /\ walked.reads <= 10
        /\ Len(walked.path) <= 10
        /\ walked.caught <=> (failAt # 0 /\ failAt = walked.reads)
        /\ walked.caught => walked.path = UnknownPath
        /\ ~walked.caught =>
              /\ Len(walked.path) = walked.reads
              /\ walked.path[Len(walked.path)] = walkFrom
              /\ \A i \in 1..(Len(walked.path) - 1) :
                    walked.path[i] = parentOf[walked.path[i + 1]]
              /\ walked.reads < 10 => parentOf[walked.path[1]] = NoParent

\* C27 witness: a cyclic parent structure stopped the walk at the bound.
C27_Witness ==
    /\ wpc = "done" /\ ~walked.caught
    /\ walked.reads = 10 /\ Len(walked.path) = 10
    /\ parentOf[walked.path[1]] # NoParent

\* C27 witness: a read in the middle of the walk threw.
C27_WitnessCaught ==
    /\ wpc = "done" /\ walked.caught /\ walked.reads = 2
    /\ walked.path = UnknownPath


\* the folders that hold a marker document
Marked == {f \in Folders : marker[f] # NoMarker}

\* C28: findClientFolders returns exactly one record per marker document the
\* search found, nested ones included, also when the lookup of a folder
\* fails.
C28_OneRecordPerMarker ==
    fpc = "done" =>
        /\ {foundFolders[i].folderId : i \in DOMAIN foundFolders} = Marked
        /\ Len(foundFolders) = Cardinality(Marked)

\* C28 when every folder lookup succeeds: one record per marker document,
\* in the order of the search, none discarded for being nested.
C28_OneRecordPerMarkerNoFailure ==
    (fpc = "done" /\ failedGets \cap Marked = {}) =>
        /\ {foundFolders[i].folderId : i \in DOMAIN foundFolders} = Marked
        /\ Len(foundFolders) = Cardinality(Marked)
        /\ foundFolders = findClientFolders(marker)


\* C29: once a refresh has completed, every get answered while it ran
\* returned the entry the key had before the refresh or the one it has after
\* it, and not a miss for a key that has an entry both before and after.
C29_SwapOnRefresh ==
    (rpc = "idle" /\ refreshes >= 1) =>
        \A g \in gets :
            g.during =>
                /\ g.result \in {preCache[g.key], cache[g.key]}
                /\ (preCache[g.key] # None /\ cache[g.key] # None) => g.result # None

\* C29 for the map itself: no step of a running refresh changes the map that
\* get reads.
C29_MapNotMutatedInPlace ==
    [][(rpc \in {"listed", "reading"} /\ rpc' # "idle") => (cache' = cache)]_vars


\* p is a proper prefix of q at a ' > ' boundary
ProperPrefix(p, q) == Len(p) < Len(q) /\ SubSeq(q, 1, Len(p)) = p

\* the discovery orders of n records
Orders(n) == {p \in [1..n -> 1..n] : \A i, j \in 1..n : i # j => p[i] # p[j]}

\* C30: the result holds exactly the records that have no other record's path
\* as a proper prefix (siblings and records with equal paths are all kept),
\* each once, by ascending depth and in discovery order among records of one
\* depth; discovered in any other order, the same records are selected.
C30_ExactlyTheTopRecords ==
    dpc = "done" =>
        /\ Range(selectedFolders) =
              {x \in Range(allFolders) :
                  ~\E y \in Range(allFolders) : ProperPrefix(y.folderPath, x.folderPath)}
        /\ Cardinality(Range(selectedFolders)) = Len(selectedFolders)
        /\ \A i, j \in DOMAIN selectedFolders :
              i < j =>
                  /\ Len(selectedFolders[i].folderPath) <= Len(selectedFolders[j].folderPath)
                  /\ Len(selectedFolders[i].folderPath) = Len(selectedFolders[j].folderPath)
                        => selectedFolders[i].folderId < selectedFolders[j].folderId
        /\ \A p \in Orders(Len(allFolders)) :
              Range(deduplicateFoldersByPriority([i \in DOMAIN allFolders |-> allFolders[p[i]]]))
                  = Range(selectedFolders)

\* C30 witness: a parent discovered after its child, a sibling, and a record
\* with the sibling's own path: the child alone is dropped, and the two
\* records of equal path keep their discovery order.
C30_Witness ==
    /\ dpc = "done"
    /\ Len(allFolders) = 3
    /\ allFolders[1].folderPath = allFolders[2].folderPath
    /\ Len(allFolders[1].folderPath) = 2
    /\ allFolders[3].folderPath = <<"B">>
    /\ allFolders[1].folderPath[1] = "A"
    /\ selectedFolders = <<allFolders[3], allFolders[1], allFolders[2]>>

\* C30 witness: a child is dropped for its parent discovered later.
C30_WitnessDropped ==
    /\ dpc = "done"
    /\ Len(allFolders) = 3
    /\ ProperPrefix(allFolders[3].folderPath, allFolders[1].folderPath)
    /\ ~ProperPrefix(allFolders[3].folderPath, allFolders[2].folderPath)
    /\ Len(allFolders[2].folderPath) = 1
    /\ selectedFolders = <<allFolders[2], allFolders[3]>>


----------------------------------------------------------------------------
(* Properties of the deduplication on a deep store *)

\* the folders deduplicateFoldersByPriority selected
SelectedIds == {selectedFolders[i].folderId : i \in DOMAIN selectedFolders}

\* C31: of two discovered marker folders of which one is an ancestor of the
\* other, only the ancestor is selected, so that a folder's files are searched
\* from at most one selected folder; also when the descendant's path is
\* truncated after ten levels or is 'Unknown Path'
C31_OnlyAncestorAuthoritative ==
    (wpc = "done" /\ dpc = "done") =>
        /\ \A i, j \in DOMAIN walkFrom :
              IsAncestor(parentOf, walkFrom[i], walkFrom[j]) => walkFrom[j] \notin SelectedIds
        /\ \A d \in DeepNodes :
              Cardinality({s \in SelectedIds : s = d \/ IsAncestor(parentOf, s, d)}) <= 1

\* C31, where every path was built in full: no read threw and no walk was
\* cut off at maxDepth
C31_OnlyAncestorWhenPathsComplete ==
    (/\ wpc = "done" /\ dpc = "done"
     /\ \A i \in DOMAIN walked : ~walked[i].caught /\ Len(walked[i].path) = walkFrom[i]) =>
        \A i, j \in DOMAIN walkFrom :
            IsAncestor(parentOf, walkFrom[i], walkFrom[j]) => walkFrom[j] \notin SelectedIds

\* a nested marker folder with a complete path was discarded
C31_WitnessComplete ==
    /\ wpc = "done" /\ dpc = "done"
    /\ Len(walkFrom) = 2
    /\ IsAncestor(parentOf, walkFrom[2], walkFrom[1])
    /\ \A i \in DOMAIN walked : ~walked[i].caught /\ Len(walked[i].path) = walkFrom[i]
    /\ SelectedIds = {walkFrom[2]}


----------------------------------------------------------------------------
(* Properties of ClientCache.refresh under overlapping calls *)

\* C32: at most one _doRefresh executes at a time, a _doRefresh starts only
\* when none is executing, and a caller that arrived while one was executing
\* returns with the outcome of that one
C32_SingleFlight ==
    /\ Cardinality(Executing) <= 1
    /\ \A id \in DOMAIN flights : flights[id].overlaps = {}
    /\ \A c \in Callers :
          (calls[c].pc = "returned" /\ calls[c].during # {}) =>
              /\ calls[c].during = {calls[c].outcome.flight}
              /\ calls[c].outcome.state = flights[calls[c].outcome.flight].state
    /\ \A c \in Callers :
          (calls[c].pc = "waiting" /\ calls[c].during # {}) =>
              calls[c].during = {calls[c].promise} /\ calls[c].promise \in Executing

\* a caller arrived during a refresh and returned with its outcome, and a
\* later refresh was started after it
C32_Witness ==
    /\ Len(flights) = 2
    /\ flights[1].state = "resolved"
    /\ \E c \in Callers :
          /\ calls[c].pc = "returned" /\ ~calls[c].owner
          /\ calls[c].during = {1} /\ calls[c].outcome = [flight |-> 1, state |-> "resolved"]


\* C39: when the last refresh failed while listing the marker folders, the
\* map and lastRefreshTime are as they were before it, every caller that
\* awaited it returned with the error, and isRefreshing and refreshPromise
\* are reset
C39_FailedRefreshLeavesCache ==
    \A id \in DOMAIN flights :
        (flights[id].state = "rejected" /\ id = Len(flights)) =>
            /\ cache = flights[id].before.cache
            /\ lastRefreshTime = flights[id].before.lastRefreshTime
            /\ isRefreshing = FALSE /\ refreshPromise = NoPromise
            /\ \E c \in Callers : calls[c].promise = id /\ calls[c].owner
            /\ \A c \in Callers :
                  calls[c].promise = id =>
                      /\ calls[c].pc = "returned"
                      /\ calls[c].outcome = [flight |-> id, state |-> "rejected"]

\* a refresh failed on a filled cache with a second caller waiting
C39_Witness ==
    /\ Len(flights) = 2
    /\ flights[1].state = "resolved" /\ flights[2].state = "rejected"
    /\ cache # EmptyMap /\ lastRefreshTime = 1
    /\ \E c \in Callers : calls[c].promise = 2 /\ ~calls[c].owner /\ calls[c].pc = "returned"

\* a refresh failed on a filled cache, and a later refresh ran
C39_WitnessLater ==
    /\ Len(flights) = 3
    /\ flights[1].state = "resolved" /\ flights[2].state = "rejected"
    /\ flights[2].before.cache # EmptyMap
    /\ flights[3].state = "resolved" /\ lastRefreshTime = 3


----------------------------------------------------------------------------
(* Properties of the undo handler *)

\* the files beneath the folders whose marker is the undone identifier that
\* carried the suffix when the undo began
UndoneFiles ==
    {x \in Files :
        /\ EndsWithUploadedPdf(undone.namesBefore[x])
        /\ \E f \in {"F1", "F3"} :
              /\ marker[f] # NoMarker /\ Trim(marker[f]) = undone.transactionId
              /\ x \in FilesUnder(f)}

\* the run after the undo is over and none of its calls misbehaved
NextRunDone ==
    /\ pc = "idle" /\ mode = "idbatch" /\ run = undone.atRun + 1
    /\ response = 200 /\ faults = undone.faultsAfter

\* C33: after an undo for T that answered 200 with no rename failing, every
\* file beneath T's folder that carried the suffix is eligible, and the next
\* run submits it to T again and marks it again
C33_UndoThenResubmitted ==
    (undone.status = 200 /\ undone.renameErrors = {}) =>
        /\ (run = undone.atRun /\ pc = "idle") =>
              \A x \in UndoneFiles : IsNewPdf(name[x])
        /\ NextRunDone =>
              \A x \in UndoneFiles :
                  /\ <<x, ParseInt(undone.transactionId)>> \in ackedRun
                  /\ EndsWithUploadedPdf(name[x])

\* C33, for an undo none of whose marker reads threw
C33_UndoThenResubmittedReadsOk ==
    (undone.status = 200 /\ undone.renameErrors = {} /\ undone.readErrors = {}) =>
        /\ (run = undone.atRun /\ pc = "idle") =>
              \A x \in UndoneFiles : IsNewPdf(name[x])
        /\ NextRunDone =>
              \A x \in UndoneFiles :
                  /\ <<x, ParseInt(undone.transactionId)>> \in ackedRun
                  /\ EndsWithUploadedPdf(name[x])

\* two marked files were undone, submitted again and marked again
C33_Witness ==
    /\ undone.status = 200 /\ undone.renameErrors = {} /\ undone.readErrors = {}
    /\ undone.filesRenamed = 2
    /\ Cardinality(UndoneFiles) = 2
    /\ NextRunDone
    /\ \A x \in UndoneFiles : submitted[<<x, "t3">>] = 2


----------------------------------------------------------------------------
(* Properties of the single-client handler *)

\* C34: in the single-client handler, with every call succeeding, the
\* transactions are all the records the registry returned for the email,
\* whatever their status, and every eligible file of the matched folder is
\* submitted once to each of them
C34_AllStatusesAllFiles ==
    (mode = "email" /\ pc = "log" /\ faults = 0) =>
        LET clients == RegistryAnswer(request).clients
            eligible == findNewPDFs(matchedFolder.folderId, nameAtStart)
        IN  /\ Len(transactions) = Len(clients)
            /\ \A i \in DOMAIN clients : transactions[i].client_id = clients[i].client_id
            /\ \A k \in DOMAIN eligible : \A i \in DOMAIN clients :
                  /\ attempted[<<eligible[k].id, clients[i].client_id>>] = 1
                  /\ <<eligible[k].id, clients[i].client_id>> \in ackedRun

\* two eligible files were submitted to an open and to a closed transaction
C34_Witness ==
    /\ mode = "email" /\ pc = "log" /\ faults = 0
    /\ request = <<"e2">>
    /\ Len(findNewPDFs(matchedFolder.folderId, nameAtStart)) = 2
    /\ \A f \in {"f1", "f2"} : \A t \in {"t3", "t4"} : <<f, t>> \in ackedRun


----------------------------------------------------------------------------
(* Properties of overlapping invocations *)

\* C35: no file is submitted to the same transaction by two invocations that
\* overlapped in time
C35_NoDoubleSubmissionWhenOverlapping ==
    \A j \in Jobs, o \in Jobs :
        (j # o /\ jobs[j].overlapped /\ jobs[o].overlapped) =>
            jobs[j].acked \cap jobs[o].acked = {}

\* C35 for invocations that did not overlap: what one marked, a later one
\* does not submit again
C35_NoDoubleSubmissionInSequence ==
    \A j \in Jobs, o \in Jobs :
        (j # o /\ ~jobs[j].overlapped /\ ~jobs[o].overlapped) =>
            jobs[j].acked \cap jobs[o].acked = {}

\* two invocations ran one after the other and the first submitted files
C35_WitnessSequence ==
    /\ \A j \in Jobs : jobs[j].pc = "done" /\ ~jobs[j].overlapped
    /\ \E j \in Jobs : Cardinality(jobs[j].acked) >= 2


----------------------------------------------------------------------------
(* Properties of failed pairs *)

\* C36: when the batch run ends, a file with a pair that ended in failure is
\* still eligible, so that the next run attempts the pair again, also when
\* the file's pair with another transaction succeeded
C36_FailedPairStaysEligible ==
    (mode = "batch" /\ pc = "log") =>
        \A rec \in pairLog :
            rec.outcome = "failure" => IsNewPdf(name[rec.file])

\* C36 for the files none of whose pairs succeeded in the run
C36_FailedFileStaysEligible ==
    (mode = "batch" /\ pc = "log") =>
        \A rec \in pairLog :
            (/\ rec.outcome = "failure"
             /\ ~\E other \in pairLog : other.file = rec.file /\ other.outcome = "success") =>
                IsNewPdf(name[rec.file])

\* a file's only pair of the run failed after three attempts
C36_WitnessFailedFile ==
    /\ mode = "batch" /\ pc = "log"
    /\ \E rec \in pairLog :
          /\ rec.outcome = "failure" /\ Len(rec.answers) = maxRetries
          /\ ~\E other \in pairLog : other.file = rec.file /\ other.outcome = "success"


----------------------------------------------------------------------------
(* Properties of the outcome lists *)

\* the entries of a result list for the pair (file, transaction)
EntriesFor(list, fileField, file, txn) ==
    {i \in DOMAIN list : HasField(list[i], fileField) /\ list[i][fileField] = file
                         /\ list[i].sisuClientId = txn}

\* every enumerated file of every iteration has one entry, in
\* successfulUploads or in failures, and the summary counts the lists
OneOutcomePerPair ==
    /\ \A e \in enumerated : \A k \in DOMAIN e.files :
          Cardinality(EntriesFor(successfulUploads, "driveFileId", e.files[k].id, e.txn))
            + Cardinality(EntriesFor(failures, "fileId", e.files[k].id, e.txn)) = 1
    /\ body.summary.totalSuccessful = Len(successfulUploads)
    /\ body.summary.totalFailed = Len(failures)
    /\ body.summary.totalSkipped = Len(skipped)
    /\ body.summary.multiTransactionCount = Len(multiTransactionFlags)

\* C37: in the batch handler every enumerated file of every (folder,
\* transaction) iteration has exactly one entry, in successfulUploads or in
\* failures; it is in successfulUploads exactly when the registry
\* acknowledged the submission; the summary counts are the lengths of the lists
C37_OutcomePerPairAckedIsSuccess ==
    (BatchDone /\ response = 200 /\ body # EmptyBody) =>
        /\ OneOutcomePerPair
        /\ \A e \in enumerated : \A k \in DOMAIN e.files :
              (EntriesFor(successfulUploads, "driveFileId", e.files[k].id, e.txn) # {})
                  <=> (<<e.files[k].id, e.txn>> \in ackedRun)

\* C37 with success meaning acknowledged and renamed
C37_OutcomePerPair ==
    (BatchDone /\ response = 200 /\ body # EmptyBody) =>
        /\ OneOutcomePerPair
        /\ \A e \in enumerated : \A k \in DOMAIN e.files :
              (EntriesFor(successfulUploads, "driveFileId", e.files[k].id, e.txn) # {})
                  <=> \E rec \in pairLog :
                         /\ rec.file = e.files[k].id /\ rec.txn = e.txn
                         /\ Len(rec.answers) > 0 /\ rec.answers[Len(rec.answers)] = "ack"
                         /\ rec.rename = "ok"

\* a run ended with a success entry and a failure entry
C37_WitnessBoth ==
    /\ BatchDone /\ response = 200 /\ body # EmptyBody
    /\ Len(successfulUploads) >= 1
    /\ \E i \in DOMAIN failures : failures[i].stage = "upload_to_sisu"


----------------------------------------------------------------------------
(* Termination of the batch handler *)

\* C38: every batch invocation over a finite store eventually sends exactly
\* one response, 200 or 500, when every store and registry call returns or
\* throws; no retry loop goes beyond 3 attempts
C38_EveryRunResponds ==
    /\ (mode = "batch" /\ pc # "idle") ~> (pc = "idle" /\ response \in {200, 500})
    /\ [][(pc' = "idle" \/ run' # run)
             => (pc' = "idle" /\ run' = run + 1 /\ response' \in {200, 500})]_vars
    /\ [](attempt \in 1..3)

\* a run answered 200 after a retry loop used its three attempts
C38_Witness ==
    /\ BatchDone /\ response = 200
    /\ \E rec \in pairLog : Len(rec.answers) = 3

\* a run answered 500
C38_WitnessFatal == BatchDone /\ response = 500


----------------------------------------------------------------------------
(* Authorization of the cron upload endpoint *)

\* the user-agent of the last cron request contains 'vercel-cron'
UserAgentNamesVercelCron ==
    /\ cron.userAgent.set
    /\ \E i \in 1..Len(cron.userAgent.value) :
          /\ i + 2 <= Len(cron.userAgent.value)
          /\ cron.userAgent.value[i] = "vercel"
          /\ cron.userAgent.value[i + 1] = "-"
          /\ cron.userAgent.value[i + 2] = "cron"

\* its Authorization header is 'Bearer ' followed by the configured,
\* non-empty secret
BearerOfConfiguredSecret ==
    /\ cronSecret.set /\ Len(cronSecret.value) > 0
    /\ cron.authorization.set
    /\ Len(cron.authorization.value) = 2 + Len(cronSecret.value)
    /\ cron.authorization.value[1] = "Bearer" /\ cron.authorization.value[2] = " "
    /\ \A k \in 1..Len(cronSecret.value) :
          cron.authorization.value[2 + k] = cronSecret.value[k]

\* C40: the cron upload endpoint runs the upload handler only when the
\* request's user-agent contains 'vercel-cron' or its Authorization header is
\* 'Bearer ' followed by a configured, non-empty CRON_SECRET; every other
\* request is answered 401 and causes no store call, no registry call and no
\* rename
C40_CronAuthorized ==
    /\ []((cron.pc = "running" \/ pc # "idle")
             => (cron.pc = "running"
                 /\ (UserAgentNamesVercelCron \/ BearerOfConfiguredSecret)))
    /\ []((cron.pc = "done" /\ ~(UserAgentNamesVercelCron \/ BearerOfConfiguredSecret))
             => cron.status = 401)
    /\ [][(cron' # cron /\ cron'.status = 401) => UNCHANGED handlerVars]_vars
    /\ [][(cron.pc # "running" /\ cron'.pc # "running") => UNCHANGED handlerVars]_vars

\* after a run started by the scheduler, a request whose Authorization is
\* 'Bearer ' alone was answered 401 where the secret is the empty string
C40_Witness ==
    /\ cron.pc = "done" /\ cron.status = 401 /\ run = 1
    /\ cronSecret = Str(<<>>) /\ cron.authorization = Str(Bearer)

\* a request carrying the secret and no scheduler user-agent ran the handler,
\* which submitted a file
C40_WitnessSecret ==
    /\ cron.pc = "done" /\ cron.status = 200
    /\ ~UserAgentNamesVercelCron /\ BearerOfConfiguredSecret
    /\ Len(successfulUploads) >= 1


====
